---- MODULE Spec2Model ----
(***************************************************************************)
(* paratrooper: the update lifecycle engine.                               *)
(*                                                                         *)
(* The API process (PrepareUpdate, CommitUpdate, RollbackUpdate and the    *)
(* device-facing resolver UpdateToInstall), the worker process (the        *)
(* message handler around ProcessUpdate and the max-deliveries handler),   *)
(* and the SQL store, blob store and work queue they share.                *)
(***************************************************************************)
EXTENDS Naturals, Integers, Sequences, FiniteSets, Bags, TLC

\* ------------------------------------------------------------------------
\* Bounds of the model
\* ------------------------------------------------------------------------
MaxUpdates == 1

MaxResolveUpdates == 3

MaxResolvePublishes == 3

MaxPublishes == 2

MaxAssets == 1

MaxInFlight == 1

MaxCopies == 2

MaxCheckUpdates == 1

MaxCheckPublishes == 2

MaxCached == 1

MaxPathLen == 4

MaxObjects == 2

MaxArchiveAssets == 3

MaxPrepares == 3

\* objects stored through PUT /assets
MaxStored == 2

\* successful ProcessUpdate runs counted per message
MaxProcessed == 2

\* ------------------------------------------------------------------------
\* Program constants
\* ------------------------------------------------------------------------
MaxDeliver == 5

platforms == <<"android", "ios">>

DefaultChannelName == "production"

\* create type update_status as enum (...): the enum's sort order
update_status == <<"empty", "pending", "processing", "published", "failed", "canceled">>

StatusOrd(s) == CHOOSE i \in 1..Len(update_status) : update_status[i] = s

\* The two projects of the fixtures, one per update protocol
Projects == {"test_expo", "test_codepush"}

Protocol(project_id) == IF project_id = "test_codepush" THEN "codepush" ELSE "expo"

RuntimeVersions == {"1.0.0", "2.0.0"}

Channels == {DefaultChannelName, "beta"}

PlatformSet == {platforms[i] : i \in 1..Len(platforms)}

\* ------------------------------------------------------------------------
\* Values
\* ------------------------------------------------------------------------
\* A content hash is a sequence of naturals; sha256 is modelled as an
\* injective function of the content it digests.
SHA256(content) == <<1, content>>

\* the hash a device may send that no asset of the store has
UnknownSHA == <<0>>

\* pgtype.Text
NullText == [String |-> <<>>, Valid |-> FALSE]

Text(s) == [String |-> s, Valid |-> TRUE]

\* nil *uuid.UUID / nil *string of CurrentUpdateFilter
NilID == 0

NilSHA == <<>>

\* storage_object_path tails: <<kind, n>>
BundlePath == <<"bundle", 0>>

AssetPath(i) == <<"asset", i>>

ArchivePath == <<"archive", 0>>

\* What a client uploads for an update: metadata.json (fileMetadata per
\* platform: the bundle, identified by its content, and the number of assets)
\* and the files it lists.
IosBundle == [p \in {"ios"} |-> [bundle |-> 1, assets |-> 0]]

IosBundleAndAssets == [p \in {"ios"} |-> [bundle |-> 2, assets |-> MaxAssets]]

BothPlatforms == [p \in PlatformSet |-> [bundle |-> 1, assets |-> IF p = "ios" THEN MaxAssets ELSE 0]]

Uploads == {IosBundle, IosBundleAndAssets, BothPlatforms}

\* (project_id, runtime_version, channel) of the PrepareUpdate requests
PrepareRequests ==
    { r \in [project_id : Projects, runtime_version : RuntimeVersions, channel : Channels] :
        \/ r.runtime_version = "1.0.0" /\ r.channel = DefaultChannelName
        \/ r.project_id = "test_codepush" /\ r.runtime_version = "1.0.0"
        \/ r.project_id = "test_codepush" /\ r.channel = DefaultChannelName }

VARIABLES
    updates,     \* table updates: sequence of rows, id = created_at = position
    bucket,      \* blob store: bucket[id] = what was uploaded for update id
    update_metadata, \* table update_metadata: the update ids that have a row
    assets,      \* table update_assets: bag of rows
    stream,      \* work queue stream UPDATES: sequence of messages; `processed`
                 \* counts the times ProcessUpdate returned nil for the message,
                 \* up to MaxProcessed
    advisories,  \* max-deliveries advisories not yet handled (stream_seq)
    worker,      \* the worker's message handler: [pc, seq]
    commits,     \* CommitUpdate calls between SetUpdateStatus and Publish (bag of ids)
    rollbacks,   \* RollbackUpdate calls between UpdateByID and SetUpdateStatus (bag of ids)
    lastWrite,   \* the status written by the last step, if any, and the operation writing it
    ret,         \* the return of a handler in the last step, if any
    resp,        \* the UpdateToInstall call answered by the last step, if any
    cache,       \* the response cache of the Expo update checks: key -> response
    reply,       \* the device update check answered by the last step, if any
    call,        \* a call of one of the storage and hashing functions: its arguments and result
    blobs,       \* the blob store of local storage mode as PUT /assets writes it: object key -> body
    worker2      \* the message handler of a second worker instance: [pc, seq]

vars == <<updates, bucket, update_metadata, assets, stream, advisories, worker, commits, rollbacks,
          lastWrite, ret, resp, cache, reply, call, blobs, worker2>>

UpdateIDs == 1..Len(updates)

NoWrite == [by |-> "none", id |-> 0, from |-> "none", to |-> "none"]

NoRet == [op |-> "none", id |-> 0, err |-> "none"]

NoUpdate == [id |-> 0, project_id |-> "none", runtime_version |-> "none",
             channel |-> "none", status |-> "none", created_at |-> 0]

NoRow == [Update |-> NoUpdate, ContentSha256 |-> NullText, is_archive |-> FALSE]

NoResp == [called |-> FALSE, params |-> <<>>, filter |-> <<>>, queried |-> FALSE,
           rows |-> <<>>, err |-> FALSE, row |-> NoRow]

\* no update check endpoint has answered
NoReply == [called |-> FALSE, endpoint |-> "none", request |-> <<>>, params |-> <<>>,
            cached |-> FALSE, resolved |-> FALSE, row |-> NoRow,
            status |-> 0, kind |-> "none", body |-> <<>>]

\* an empty cache
NoCache == [k \in {} |-> NoReply]

Idle == [pc |-> "idle", seq |-> 0]

\* a step of the lifecycle answers no update check and leaves the cache alone
NoDeviceCall == resp' = NoResp /\ reply' = NoReply /\ UNCHANGED <<cache, call, blobs, worker2>>

\* no function call is being followed
NoCall == [fn |-> "none", args |-> <<>>, pc |-> "done", result |-> <<>>]

\* a blob store that holds no object
NoBlobs == [k \in {} |-> <<>>]

\* the stores, the queue and the worker after construction
InitStores ==
    /\ updates = <<>>
    /\ bucket = <<>>
    /\ update_metadata = {}
    /\ assets = EmptyBag
    /\ stream = <<>>
    /\ advisories = {}
    /\ worker = Idle
    /\ commits = EmptyBag
    /\ rollbacks = EmptyBag
    /\ lastWrite = NoWrite
    /\ ret = NoRet
    /\ resp = NoResp
    /\ cache = NoCache
    /\ reply = NoReply
    /\ blobs = NoBlobs
    /\ worker2 = Idle

Init == InitStores /\ call = NoCall

\* the process an operation runs in
ProcessOf(op) ==
    IF op \in {"PrepareUpdate", "CommitUpdate", "RollbackUpdate"} THEN "api"
    ELSE IF op \in {"ProcessUpdate", "newMessageHandler", "newMaxDeliveriesHandler"} THEN "worker"
    ELSE "none"

\* ------------------------------------------------------------------------
\* SQL store
\* ------------------------------------------------------------------------
\* UPDATE updates SET status = $2 WHERE id = $1, issued by the operation `by`
SetUpdateStatus(by, id, status) ==
    /\ updates' = [updates EXCEPT ![id].status = status]
    /\ lastWrite' = [by |-> by, id |-> id, from |-> updates[id].status, to |-> status]

\* The table keeps every inserted row; the model counts the copies of one
\* row (same update, platform, path and hashes) up to MaxCopies.
CreateUpdateAssets(rows) ==
    LET all == assets (+) SetToBag(rows) IN
    assets' = [ a \in DOMAIN all |-> IF all[a] > MaxCopies THEN MaxCopies ELSE all[a] ]

\* ------------------------------------------------------------------------
\* API process
\* ------------------------------------------------------------------------
\* the steps of service.PrepareUpdate that may fail, in the order they run:
\* pgPool.Begin, the two inserts, UploadURLs (the size limit, a signed URL)
\* and tx.Commit
PrepareSteps ==
    <<"Begin", "CreateUpdate", "CreateUpdateMetadata", "ErrUpdateTooLarge", "SignedURL", "Commit">>

PrepareFailures == { PrepareSteps[i] : i \in 1..Len(PrepareSteps) }

\* step `step` has run without failing when the call fails at failAt
Ran(step, failAt) ==
    \/ failAt = "none"
    \/ \E i, j \in 1..Len(PrepareSteps) :
         PrepareSteps[i] = step /\ PrepareSteps[j] = failAt /\ i < j

\* the transaction is left as it was written
Rollback_Keep(before, written) == written

\* tx.Rollback: the tables are as before the transaction
Rollback(before, written) == before

\* service.PrepareUpdate: one transaction that inserts the update with status
\* empty and, when expo_app_config is supplied, its update_metadata row, then
\* mints the upload URLs and commits; the deferred Rollback undoes the
\* inserts when the call returns before the commit succeeded.  failAt: the
\* step that fails, "none" when the call succeeds.
PrepareUpdate(req, upload, expoAppConfig, failAt) ==
    /\ failAt = "CreateUpdateMetadata" => expoAppConfig
    /\ LET id == Len(updates) + 1
           before == [updates |-> updates, update_metadata |-> update_metadata]
           written ==
             [updates |->
                IF Ran("CreateUpdate", failAt)
                THEN Append(updates,
                       [id |-> id, project_id |-> req.project_id,
                        runtime_version |-> req.runtime_version, channel |-> req.channel,
                        status |-> "empty", created_at |-> id])
                ELSE updates,
              update_metadata |->
                IF expoAppConfig /\ Ran("CreateUpdateMetadata", failAt)
                THEN update_metadata \cup {id}
                ELSE update_metadata]
           after == IF failAt = "none" THEN written ELSE Rollback(before, written)
       IN  /\ updates' = after.updates
           /\ update_metadata' = after.update_metadata
           /\ IF failAt = "none"
              THEN /\ bucket' = Append(bucket, upload)
                   /\ lastWrite' = [by |-> "PrepareUpdate", id |-> id, from |-> "none", to |-> "empty"]
                   /\ ret' = [op |-> "PrepareUpdate", id |-> id, err |-> "none"]
              ELSE /\ UNCHANGED bucket
                   /\ lastWrite' = NoWrite
                   /\ ret' = [op |-> "PrepareUpdate", id |-> 0, err |-> "error"]
    /\ NoDeviceCall
    /\ UNCHANGED <<assets, stream, advisories, worker, commits, rollbacks>>

\* apiServer.CommitUpdate up to and including service.CommitUpdate's
\* SetUpdateStatus(pending): the project and the update are looked up first
\* (404 when the update is not in the project), then the status is written
\* whatever it was; the publish is the next step of the call.
CommitUpdate(project_id, id, ok) ==
    /\ NoDeviceCall
    /\ UNCHANGED <<bucket, update_metadata, assets, stream, advisories, worker, rollbacks>>
    /\ IF id \notin UpdateIDs \/ updates[id].project_id # project_id
       THEN /\ ret' = [op |-> "CommitUpdate", id |-> id, err |-> "NotFound"]
            /\ lastWrite' = NoWrite
            /\ UNCHANGED <<updates, commits>>
       ELSE IF ok
       THEN /\ SetUpdateStatus("CommitUpdate", id, "pending")
            /\ commits' = commits (+) SetToBag({id})
            /\ ret' = NoRet
       ELSE /\ ret' = [op |-> "CommitUpdate", id |-> id, err |-> "error"]
            /\ lastWrite' = NoWrite
            /\ UNCHANGED <<updates, commits>>

\* a publish that reports its failure after the message was enqueued
PublishProcessUpdateMessage_Enqueued(id, ok) ==
    /\ BagIn(id, commits)
    /\ commits' = commits (-) SetToBag({id})
    /\ stream' = Append(stream, [update_id |-> id, num_delivered |-> 0, st |-> "ready", processed |-> 0])
    /\ ret' = [op |-> "CommitUpdate", id |-> id, err |-> IF ok THEN "none" ELSE "error"]
    /\ lastWrite' = NoWrite
    /\ NoDeviceCall
    /\ UNCHANGED <<updates, bucket, update_metadata, assets, advisories, worker, rollbacks>>

\* Connection.PublishProcessUpdateMessage, then service.CommitUpdate returns
PublishProcessUpdateMessage(id, ok) ==
    /\ BagIn(id, commits)
    /\ commits' = commits (-) SetToBag({id})
    /\ IF ok
       THEN /\ stream' = Append(stream, [update_id |-> id, num_delivered |-> 0, st |-> "ready", processed |-> 0])
            /\ ret' = [op |-> "CommitUpdate", id |-> id, err |-> "none"]
       ELSE /\ UNCHANGED stream
            /\ ret' = [op |-> "CommitUpdate", id |-> id, err |-> "error"]
    /\ lastWrite' = NoWrite
    /\ NoDeviceCall
    /\ UNCHANGED <<updates, bucket, update_metadata, assets, advisories, worker, rollbacks>>

\* a RollbackUpdate that looks the update up by id alone
RollbackUpdate_AnyProject(project_id, id, ok) ==
    /\ lastWrite' = NoWrite
    /\ NoDeviceCall
    /\ UNCHANGED <<updates, bucket, update_metadata, assets, stream, advisories, worker, commits>>
    /\ IF ~ok
       THEN /\ ret' = [op |-> "RollbackUpdate", id |-> id, err |-> "error"]
            /\ UNCHANGED rollbacks
       ELSE IF id \notin UpdateIDs
       THEN /\ ret' = [op |-> "RollbackUpdate", id |-> id, err |-> "ErrUpdateNotFound"]
            /\ UNCHANGED rollbacks
       ELSE IF updates[id].status # "published"
       THEN /\ ret' = [op |-> "RollbackUpdate", id |-> id, err |-> "ErrUpdateNotPublished"]
            /\ UNCHANGED rollbacks
       ELSE /\ ret' = NoRet
            /\ rollbacks' = rollbacks (+) SetToBag({id})

\* service.RollbackUpdate up to its status check: UpdateByID scoped to the
\* project, ErrUpdateNotFound, ErrUpdateNotPublished
RollbackUpdate(project_id, id, ok) ==
    /\ lastWrite' = NoWrite
    /\ NoDeviceCall
    /\ UNCHANGED <<updates, bucket, update_metadata, assets, stream, advisories, worker, commits>>
    /\ IF ~ok
       THEN /\ ret' = [op |-> "RollbackUpdate", id |-> id, err |-> "error"]
            /\ UNCHANGED rollbacks
       ELSE IF id \notin UpdateIDs \/ updates[id].project_id # project_id
       THEN /\ ret' = [op |-> "RollbackUpdate", id |-> id, err |-> "ErrUpdateNotFound"]
            /\ UNCHANGED rollbacks
       ELSE IF updates[id].status # "published"
       THEN /\ ret' = [op |-> "RollbackUpdate", id |-> id, err |-> "ErrUpdateNotPublished"]
            /\ UNCHANGED rollbacks
       ELSE /\ ret' = NoRet
            /\ rollbacks' = rollbacks (+) SetToBag({id})

\* service.RollbackUpdate's SetUpdateStatus(canceled) and return
RollbackUpdateSet(id, ok) ==
    /\ BagIn(id, rollbacks)
    /\ rollbacks' = rollbacks (-) SetToBag({id})
    /\ IF ok
       THEN /\ SetUpdateStatus("RollbackUpdate", id, "canceled")
            /\ ret' = [op |-> "RollbackUpdate", id |-> id, err |-> "none"]
       ELSE /\ UNCHANGED updates
            /\ lastWrite' = NoWrite
            /\ ret' = [op |-> "RollbackUpdate", id |-> id, err |-> "error"]
    /\ NoDeviceCall
    /\ UNCHANGED <<bucket, update_metadata, assets, stream, advisories, worker, commits>>

\* ------------------------------------------------------------------------
\* The resolver
\* ------------------------------------------------------------------------
AssetRows == BagToSet(assets)

\* the query without its channel condition
JoinedRows_AnyChannel(params) ==
    UNION { LET u == updates[id]
                js == { a \in AssetRows :
                          /\ a.update_id = u.id
                          /\ a.platform = params.platform
                          /\ (a.is_launch_asset \/ a.is_archive) }
            IN  IF js = {}
                THEN { [Update |-> u, ContentSha256 |-> NullText, is_archive |-> FALSE] }
                ELSE { [Update |-> u, ContentSha256 |-> Text(a.content_sha256),
                        is_archive |-> a.is_archive] : a \in js }
          : id \in { i \in UpdateIDs :
                       /\ updates[i].project_id = params.project_id
                       /\ updates[i].runtime_version = params.runtime_version
                       /\ updates[i].status \in {"published", "canceled"} } }

\* from updates left join update_assets asset on ... where ...
JoinedRows(params) ==
    UNION { LET u == updates[id]
                js == { a \in AssetRows :
                          /\ a.update_id = u.id
                          /\ a.platform = params.platform
                          /\ (a.is_launch_asset \/ a.is_archive) }
            IN  IF js = {}
                THEN { [Update |-> u, ContentSha256 |-> NullText, is_archive |-> FALSE] }
                ELSE { [Update |-> u, ContentSha256 |-> Text(a.content_sha256),
                        is_archive |-> a.is_archive] : a \in js }
          : id \in { i \in UpdateIDs :
                       /\ updates[i].project_id = params.project_id
                       /\ updates[i].runtime_version = params.runtime_version
                       /\ updates[i].channel = params.channel
                       /\ updates[i].status \in {"published", "canceled"} } }

\* the order preferring the launch asset
ArchiveRank_LaunchFirst(r) == IF r.is_archive THEN 2 ELSE 1

\* case when asset.is_archive = true then 1 else 2 end
ArchiveRank(r) == IF r.is_archive THEN 1 ELSE 2

\* order by updates.status, case ... end, updates.created_at desc
OrderedBefore(r1, r2) ==
    \/ StatusOrd(r1.Update.status) < StatusOrd(r2.Update.status)
    \/ /\ r1.Update.status = r2.Update.status
       /\ \/ ArchiveRank(r1) < ArchiveRank(r2)
          \/ /\ ArchiveRank(r1) = ArchiveRank(r2)
             /\ r1.Update.created_at > r2.Update.created_at

\* select distinct on (updates.status): the first row of each status in the
\* order above; rows the order does not separate are picked arbitrarily, so
\* the query has a set of possible results.
GetLatestPublishedAndCanceledUpdates(params) ==
    LET J == JoinedRows(params)
        firsts(s) == { r \in J : /\ r.Update.status = s
                                 /\ \A r2 \in J : ~OrderedBefore(r2, r) \/ r2.Update.status # s }
        ss == { s \in {"published", "canceled"} : firsts(s) # {} }
    IN  IF ss = {} THEN { <<>> }
        ELSE IF Cardinality(ss) = 1
        THEN { <<r>> : r \in firsts(CHOOSE s \in ss : TRUE) }
        ELSE LET s1 == CHOOSE s \in ss : \A t \in ss : StatusOrd(s) <= StatusOrd(t)
                 s2 == CHOOSE s \in ss : s # s1
             IN  { <<r1, r2>> : r1 \in firsts(s1), r2 \in firsts(s2) }

\* isCurrentUpdate comparing the update id only
isCurrentUpdate_IdOnly(currentUpdate, u) ==
    currentUpdate.ID # NilID /\ u.Update.id = currentUpdate.ID

isCurrentUpdate(currentUpdate, u) ==
    \/ currentUpdate.ID # NilID /\ u.Update.id = currentUpdate.ID
    \/ /\ currentUpdate.SHA256 # NilSHA
       /\ u.ContentSha256.Valid
       /\ u.ContentSha256.String = currentUpdate.SHA256

\* UpdateToInstall answering a lone canceled row whether or not the device runs it
UpdateToInstall_RollbackAny(rows, currentUpdate) ==
    IF Len(rows) > 2 THEN [err |-> TRUE, row |-> NoRow]
    ELSE IF Len(rows) = 2
    THEN IF rows[1].Update.status = "published"
         THEN IF ~isCurrentUpdate(currentUpdate, rows[1])
              THEN [err |-> FALSE, row |-> rows[1]]
              ELSE [err |-> FALSE, row |-> NoRow]
         ELSE IF /\ rows[1].Update.status = "canceled"
                 /\ rows[2].Update.status = "published"
                 /\ ~isCurrentUpdate(currentUpdate, rows[2])
              THEN [err |-> FALSE, row |-> rows[2]]
              ELSE [err |-> FALSE, row |-> NoRow]
    ELSE IF Len(rows) = 1
    THEN IF rows[1].Update.status = "canceled"
         THEN [err |-> FALSE, row |-> rows[1]]
         ELSE IF rows[1].Update.status = "published" /\ ~isCurrentUpdate(currentUpdate, rows[1])
         THEN [err |-> FALSE, row |-> rows[1]]
         ELSE [err |-> FALSE, row |-> NoRow]
    ELSE [err |-> FALSE, row |-> NoRow]

\* service.UpdateToInstall after the query: [err, row], row = NoRow for nil
UpdateToInstall(rows, currentUpdate) ==
    IF Len(rows) > 2 THEN [err |-> TRUE, row |-> NoRow]
    ELSE IF Len(rows) = 2
    THEN IF rows[1].Update.status = "published"
         THEN IF ~isCurrentUpdate(currentUpdate, rows[1])
              THEN [err |-> FALSE, row |-> rows[1]]
              ELSE [err |-> FALSE, row |-> NoRow]
         ELSE IF /\ rows[1].Update.status = "canceled"
                 /\ rows[2].Update.status = "published"
                 /\ ~isCurrentUpdate(currentUpdate, rows[2])
              THEN [err |-> FALSE, row |-> rows[2]]
              ELSE [err |-> FALSE, row |-> NoRow]
    ELSE IF Len(rows) = 1
    THEN IF rows[1].Update.status = "canceled" /\ isCurrentUpdate(currentUpdate, rows[1])
         THEN [err |-> FALSE, row |-> rows[1]]
         ELSE IF rows[1].Update.status = "published" /\ ~isCurrentUpdate(currentUpdate, rows[1])
         THEN [err |-> FALSE, row |-> rows[1]]
         ELSE [err |-> FALSE, row |-> NoRow]
    ELSE [err |-> FALSE, row |-> NoRow]

\* the filters devices send: Expo the id it runs, CodePush the hash it runs
Filters ==
    { [ID |-> i, SHA256 |-> NilSHA] : i \in {NilID} \cup 1..(Len(updates) + 1) }
      \cup { [ID |-> NilID, SHA256 |-> h] :
               h \in { a.content_sha256 : a \in AssetRows } \cup {UnknownSHA} }

QueryParams ==
    { [project_id |-> r.project_id, runtime_version |-> r.runtime_version,
       channel |-> r.channel, platform |-> p] : r \in PrepareRequests, p \in PlatformSet }

\* One call of service.UpdateToInstall: the query, then the decision.  The
\* call changes no store, so it is taken from states no call has just answered.
UpdateToInstallCall(params, currentUpdate, ok) ==
    /\ ~resp.called
    /\ IF ok
       THEN \E rows \in GetLatestPublishedAndCanceledUpdates(params) :
              LET r == UpdateToInstall(rows, currentUpdate) IN
              resp' = [called |-> TRUE, params |-> params, filter |-> currentUpdate,
                       queried |-> TRUE, rows |-> rows, err |-> r.err, row |-> r.row]
       ELSE resp' = [called |-> TRUE, params |-> params, filter |-> currentUpdate,
                     queried |-> FALSE, rows |-> <<>>, err |-> TRUE, row |-> NoRow]
    /\ reply' = NoReply
    /\ UNCHANGED <<cache, call, blobs, worker2>>
    /\ lastWrite' = NoWrite
    /\ ret' = NoRet
    /\ UNCHANGED <<updates, bucket, update_metadata, assets, stream, advisories, worker, commits, rollbacks>>

\* ------------------------------------------------------------------------
\* Worker process
\* ------------------------------------------------------------------------
Msg == stream[worker.seq]

MsgUpdate == updates[stream[worker.seq].update_id]

SetMsg(seq, st) == stream' = [stream EXCEPT ![seq].st = st]

\* The consumer delivers a message to the handler (MaxDeliver attempts at
\* most, one message in flight); the payload parses.
Deliver(seq) ==
    /\ worker.pc = "idle"
    /\ seq \in 1..Len(stream)
    /\ stream[seq].st = "ready"
    /\ stream[seq].num_delivered < MaxDeliver
    /\ stream' = [stream EXCEPT ![seq].st = "inflight",
                                ![seq].num_delivered = stream[seq].num_delivered + 1]
    /\ worker' = [pc |-> "get", seq |-> seq]
    /\ lastWrite' = NoWrite
    /\ ret' = NoRet
    /\ NoDeviceCall
    /\ UNCHANGED <<updates, bucket, update_metadata, assets, advisories, commits, rollbacks>>

WorkerStep(pc, w, r) ==
    /\ worker' = [worker EXCEPT !.pc = pc]
    /\ lastWrite' = w
    /\ ret' = r
    /\ NoDeviceCall
    /\ UNCHANGED <<bucket, update_metadata, advisories, commits, rollbacks>>

ProcessUpdateReturns(err) == [op |-> "ProcessUpdate", id |-> Msg.update_id, err |-> err]

\* ProcessUpdate: UpdateByIDWithProtocol and the status = pending check
ProcessUpdateGet(ok) ==
    /\ worker.pc = "get"
    /\ UNCHANGED <<updates, assets, stream>>
    /\ IF ~ok THEN WorkerStep("failed", NoWrite, ProcessUpdateReturns("error"))
       ELSE IF MsgUpdate.status # "pending"
       THEN WorkerStep("term", NoWrite, ProcessUpdateReturns("ErrUpdateNotPending"))
       ELSE WorkerStep("setProcessing", NoWrite, NoRet)

\* the write of processing as a compare-and-set on status = pending
ProcessUpdateSetProcessing_CompareAndSet(ok) ==
    /\ worker.pc = "setProcessing"
    /\ UNCHANGED <<assets, stream>>
    /\ IF ok /\ MsgUpdate.status = "pending"
       THEN /\ SetUpdateStatus("ProcessUpdate", Msg.update_id, "processing")
            /\ worker' = [worker EXCEPT !.pc = "ingest"]
            /\ ret' = NoRet
            /\ NoDeviceCall
            /\ UNCHANGED <<bucket, update_metadata, advisories, commits, rollbacks>>
       ELSE /\ UNCHANGED updates
            /\ WorkerStep("term", NoWrite, ProcessUpdateReturns("ErrUpdateNotPending"))

\* ProcessUpdate: SetUpdateStatus(processing)
ProcessUpdateSetProcessing(ok) ==
    /\ worker.pc = "setProcessing"
    /\ UNCHANGED <<assets, stream>>
    /\ IF ok
       THEN /\ SetUpdateStatus("ProcessUpdate", Msg.update_id, "processing")
            /\ worker' = [worker EXCEPT !.pc = "ingest"]
            /\ ret' = NoRet
            /\ NoDeviceCall
            /\ UNCHANGED <<bucket, update_metadata, advisories, commits, rollbacks>>
       ELSE /\ UNCHANGED updates
            /\ WorkerStep("failed", NoWrite, ProcessUpdateReturns("error"))

\* the files metadata.json lists: <<platform, 0>> the bundle, <<platform, i>> asset i
Files(meta) ==
    UNION { { <<p, i>> : i \in 0..meta[p].assets } : p \in DOMAIN meta }

AssetRow(id, platform, path, content, launch, archive) ==
    [update_id |-> id, platform |-> platform, path |-> path,
     content_sha256 |-> content, is_launch_asset |-> launch, is_archive |-> archive]

\* the content of asset file i
AssetContent(i) == 10 + i

\* a failed bundle does not end the pass over its platform: the assets of
\* the platform are parsed all the same
parseAssets_KeepsPlatform(id, meta, bad) ==
    LET present == { platforms[k] : k \in { j \in 1..Len(platforms) : platforms[j] \in DOMAIN meta } }
        bundled == { p \in present : <<p, 0>> \notin bad }
    IN  [ rows |->
            { AssetRow(id, p, BundlePath, SHA256(meta[p].bundle), TRUE, FALSE) : p \in bundled }
            \cup UNION { { AssetRow(id, p, AssetPath(i), SHA256(AssetContent(i)), FALSE, FALSE)
                           : i \in { j \in 1..meta[p].assets : <<p, j>> \notin bad } }
                         : p \in present },
          errors |-> Cardinality(bad) ]

\* assetParser.parseAssets: for each platform of the metadata, the bundle,
\* then (unless the bundle failed) every asset; `bad` are the files whose
\* read or hashing fails.  [rows, errors]
parseAssets(id, meta, bad) ==
    LET present == { platforms[k] : k \in { j \in 1..Len(platforms) : platforms[j] \in DOMAIN meta } }
        bundled == { p \in present : <<p, 0>> \notin bad }
    IN  [ rows |->
            { AssetRow(id, p, BundlePath, SHA256(meta[p].bundle), TRUE, FALSE) : p \in bundled }
            \cup UNION { { AssetRow(id, p, AssetPath(i), SHA256(AssetContent(i)), FALSE, FALSE)
                           : i \in { j \in 1..meta[p].assets : <<p, j>> \notin bad } }
                         : p \in bundled },
          errors |->
            Cardinality({ p \in present : <<p, 0>> \in bad })
            + Cardinality({ f \in bad : f[1] \in bundled /\ f[2] > 0 }) ]

\* ProcessUpdate: readMetadata, parseAssets, CreateUpdateAssets(parsedAssets),
\* then the parseErrors check
ProcessUpdateIngest(metaOk, bad, ok) ==
    /\ worker.pc = "ingest"
    /\ UNCHANGED <<updates, stream>>
    /\ IF ~metaOk
       THEN /\ bad = {}
            /\ ok
            /\ UNCHANGED assets
            /\ WorkerStep("failed", NoWrite, ProcessUpdateReturns("error"))
       ELSE LET parsed == parseAssets(Msg.update_id, bucket[Msg.update_id], bad) IN
            IF ~ok
            THEN /\ UNCHANGED assets
                 /\ WorkerStep("failed", NoWrite, ProcessUpdateReturns("error"))
            ELSE /\ CreateUpdateAssets(parsed.rows)
                 /\ IF parsed.errors > 0
                    THEN WorkerStep("failed", NoWrite, ProcessUpdateReturns("error"))
                    ELSE WorkerStep("archive", NoWrite, NoRet)

\* select * from update_assets where update_id = $1 and platform = $2 and is_archive = false
GetUpdateAssetsByPlatform(id, platform) ==
    [ a \in { r \in AssetRows : r.update_id = id /\ r.platform = platform /\ ~r.is_archive }
        |-> assets[a] ]

\* "path:sha256" of an asset row, as a number ordered like the string
Token(a) == (IF a.path[1] = "asset" THEN a.path[2] ELSE 50) * 100 + a.content_sha256[2]

RECURSIVE SortTokens(_)
\* slices.Sort(tokens): `B` is the bag of tokens
SortTokens(B) ==
    IF BagToSet(B) = {} THEN <<>>
    ELSE LET m == CHOOSE t \in BagToSet(B) : \A u \in BagToSet(B) : t <= u
         IN  <<m>> \o SortTokens(B (-) SetToBag({m}))

\* calculateSHA256ForArchive: sha256 of the JSON array of the sorted tokens
calculateSHA256ForArchive(rows) ==
    LET toks == { Token(a) : a \in DOMAIN rows }
        B == [ t \in toks |-> BagCardinality([ a \in { r \in DOMAIN rows : Token(r) = t } |-> rows[a] ]) ]
    IN  <<2>> \o SortTokens(B)

\* archiver.archiveForPlatform: the archive asset row of one platform
archiveForPlatform(id, platform) ==
    AssetRow(id, platform, ArchivePath,
             calculateSHA256ForArchive(GetUpdateAssetsByPlatform(id, platform)), FALSE, TRUE)

\* the platforms ProcessUpdate archives
shouldMakeArchive(id, platform) ==
    /\ platform \in DOMAIN bucket[id]
    /\ Protocol(updates[id].project_id) = "codepush"
    /\ bucket[id][platform].assets > 0

\* the archive loop without the insert of the archive rows
ProcessUpdateArchive_SkipsInsert(archOk, ok) ==
    /\ worker.pc = "archive"
    /\ UNCHANGED <<updates, stream, assets>>
    /\ IF ~archOk \/ ~ok
       THEN WorkerStep("failed", NoWrite, ProcessUpdateReturns("error"))
       ELSE WorkerStep("publish", NoWrite, NoRet)

\* ProcessUpdate: the archive loop and CreateUpdateAssets(archivedAssets)
ProcessUpdateArchive(archOk, ok) ==
    /\ worker.pc = "archive"
    /\ UNCHANGED <<updates, stream>>
    /\ LET id == Msg.update_id
           ps == { p \in PlatformSet : shouldMakeArchive(id, p) }
       IN  IF \/ ps # {} /\ ~archOk
              \/ \E p \in ps : DOMAIN GetUpdateAssetsByPlatform(id, p) = {}
              \/ ~ok
           THEN /\ UNCHANGED assets
                /\ WorkerStep("failed", NoWrite, ProcessUpdateReturns("error"))
           ELSE /\ CreateUpdateAssets({ archiveForPlatform(id, p) : p \in ps })
                /\ WorkerStep("publish", NoWrite, NoRet)

\* ProcessUpdate: SetUpdateStatus(published) and return nil
ProcessUpdatePublish(ok) ==
    /\ worker.pc = "publish"
    /\ UNCHANGED assets
    /\ stream' = [stream EXCEPT ![worker.seq].processed =
                                   IF ok /\ @ < MaxProcessed THEN @ + 1 ELSE @]
    /\ IF ok
       THEN /\ SetUpdateStatus("ProcessUpdate", Msg.update_id, "published")
            /\ worker' = [worker EXCEPT !.pc = "ack"]
            /\ ret' = ProcessUpdateReturns("none")
            /\ NoDeviceCall
            /\ UNCHANGED <<bucket, update_metadata, advisories, commits, rollbacks>>
       ELSE /\ UNCHANGED updates
            /\ WorkerStep("failed", NoWrite, ProcessUpdateReturns("error"))

\* newMessageHandler after ProcessUpdate returned nil: msg.Ack(); a failed
\* ack leaves the message to be redelivered
HandlerAck(ok) ==
    /\ worker.pc = "ack"
    /\ SetMsg(worker.seq, IF ok THEN "gone" ELSE "ready")
    /\ worker' = Idle
    /\ lastWrite' = NoWrite
    /\ ret' = NoRet
    /\ NoDeviceCall
    /\ UNCHANGED <<updates, bucket, update_metadata, assets, advisories, commits, rollbacks>>

\* newMessageHandler on ErrUpdateNotPending: msg.Term()
HandlerTerm(ok) ==
    /\ worker.pc = "term"
    /\ SetMsg(worker.seq, IF ok THEN "gone" ELSE "ready")
    /\ worker' = Idle
    /\ lastWrite' = NoWrite
    /\ ret' = NoRet
    /\ NoDeviceCall
    /\ UNCHANGED <<updates, bucket, update_metadata, assets, advisories, commits, rollbacks>>

\* newMessageHandler on any other error: SetUpdateStatus(pending), best
\* effort, then msg.NakWithDelay; the message is redelivered either way
HandlerNak(ok) ==
    /\ worker.pc = "failed"
    /\ IF ok
       THEN SetUpdateStatus("newMessageHandler", Msg.update_id, "pending")
       ELSE UNCHANGED updates /\ lastWrite' = NoWrite
    /\ SetMsg(worker.seq, "ready")
    /\ worker' = Idle
    /\ ret' = NoRet
    /\ NoDeviceCall
    /\ UNCHANGED <<bucket, update_metadata, assets, advisories, commits, rollbacks>>

\* StartWorker returns on SIGINT and the process exits with the handler
\* anywhere in its run: what the handler wrote stays, the rest of the run
\* never happens, and the unacknowledged message stays with the durable
\* consumer, which redelivers it to the restarted worker.
WorkerExit ==
    /\ worker.pc # "idle"
    /\ SetMsg(worker.seq, "ready")
    /\ worker' = Idle
    /\ lastWrite' = NoWrite
    /\ ret' = [op |-> "StartWorker", id |-> Msg.update_id, err |-> "none"]
    /\ NoDeviceCall
    /\ UNCHANGED <<updates, bucket, update_metadata, assets, advisories, commits, rollbacks>>

\* The queue: a message delivered MaxDeliver times and still unacknowledged
\* is not delivered again; the max-deliveries advisory is published.
MaxDeliveriesAdvisory(seq) ==
    /\ seq \in 1..Len(stream)
    /\ stream[seq].st = "ready"
    /\ stream[seq].num_delivered = MaxDeliver
    /\ SetMsg(seq, "maxed")
    /\ advisories' = advisories \cup {seq}
    /\ lastWrite' = NoWrite
    /\ ret' = NoRet
    /\ NoDeviceCall
    /\ UNCHANGED <<updates, bucket, update_metadata, assets, worker, commits, rollbacks>>

\* a max-deliveries handler that cancels the update
newMaxDeliveriesHandler_Cancels(id, ok) ==
    IF ok
    THEN SetUpdateStatus("newMaxDeliveriesHandler", id, "canceled")
    ELSE UNCHANGED updates /\ lastWrite' = NoWrite

\* newMaxDeliveriesHandler: SetUpdateStatus(failed), an error only logged
newMaxDeliveriesHandler(id, ok) ==
    IF ok
    THEN SetUpdateStatus("newMaxDeliveriesHandler", id, "failed")
    ELSE UNCHANGED updates /\ lastWrite' = NoWrite

\* Connection.maxDeliveriesHandlerWrapper on one advisory: GetMsg, the
\* handler, DeleteMsg
maxDeliveriesHandlerWrapper(seq, getOk, setOk, delOk) ==
    /\ seq \in advisories
    /\ advisories' = advisories \ {seq}
    /\ IF getOk
       THEN /\ newMaxDeliveriesHandler(stream[seq].update_id, setOk)
            /\ IF delOk THEN SetMsg(seq, "gone") ELSE UNCHANGED stream
            /\ ret' = [op |-> "newMaxDeliveriesHandler", id |-> stream[seq].update_id,
                       err |-> IF setOk THEN "none" ELSE "error"]
       ELSE /\ setOk /\ delOk
            /\ UNCHANGED <<updates, stream>>
            /\ lastWrite' = NoWrite
            /\ ret' = NoRet
    /\ NoDeviceCall
    /\ UNCHANGED <<bucket, update_metadata, assets, worker, commits, rollbacks>>

\* ------------------------------------------------------------------------
\* Device update checks: the Expo endpoint and its response cache
\* ------------------------------------------------------------------------
\* a query parameter or header that the request does not carry
NilParam == "<nil>"

\* semver.NewVersion: the parsed version, <<>> when the string is no version
semverNewVersion(v) ==
    IF v \in {"1.0.0", "1.0", "v1.0.0"} THEN <<1, 0, 0>>
    ELSE IF v \in {"2.0.0", "2"} THEN <<2, 0, 0>>
    ELSE <<>>

\* Version.String()
semverString(ver) == IF ver = <<1, 0, 0>> THEN "1.0.0" ELSE "2.0.0"

\* strings.ToLower over the strings of the requests
ToLower(str) == IF str = "IOS" THEN "ios" ELSE str

\* expoUpdateParseParams: the query parameter, else its expo-* header; the
\* required fields; the normalized runtime version; the forced channel
expoUpdateParseParams(request) ==
    LET rv == IF request.RuntimeVersion # NilParam THEN request.RuntimeVersion
              ELSE IF request.ExpoRuntimeVersion # NilParam THEN request.ExpoRuntimeVersion
              ELSE ""
        platform == IF request.Platform # NilParam THEN request.Platform
                    ELSE IF request.ExpoPlatform # NilParam THEN request.ExpoPlatform
                    ELSE ""
        id == IF request.CurrentUpdateId # NilID THEN request.CurrentUpdateId
              ELSE request.ExpoCurrentUpdateId
    IN  IF rv = "" \/ platform = "" \/ semverNewVersion(rv) = <<>>
        THEN [err |-> TRUE, params |-> <<>>]
        ELSE [err |-> FALSE,
              params |-> [RuntimeVersion |-> semverString(semverNewVersion(rv)),
                          Platform |-> platform,
                          CurrentUpdateId |-> id,
                          Channel |-> DefaultChannelName,
                          ProjectID |-> request.project_id]]

\* expoUpdateCacheKey; the last segment is the current update id, NilID
\* standing for the segment "none" of a request without one
expoUpdateCacheKey(params) ==
    <<"pt:update", ToLower(params.ProjectID), ToLower(params.Channel),
      ToLower(params.RuntimeVersion), ToLower(params.Platform),
      params.CurrentUpdateId>>

\* the hash of a manifest asset: base64url of the hex-decoded sha256
ManifestHash(sha) == <<64>> \o sha

\* expo service.UpdateManifest: the possible results, [err, manifest]
UpdateManifest(update, platform) ==
    LET rows == GetUpdateAssetsByPlatform(update.id, platform)
        launch == { a \in DOMAIN rows : a.is_launch_asset }
    IN  IF DOMAIN rows = {} \/ launch = {}
        THEN { [err |-> TRUE, manifest |-> <<>>] }
        ELSE { [err |-> FALSE,
                manifest |-> [Id |-> update.id,
                              CreatedAt |-> update.created_at,
                              RuntimeVersion |-> update.runtime_version,
                              LaunchAsset |-> ManifestHash(l.content_sha256),
                              Assets |-> { ManifestHash(a.content_sha256) :
                                             a \in DOMAIN rows \ launch }]] : l \in launch }

\* the answer of an update check endpoint
Reply(endpoint, request, params, status, kind, body) ==
    [called |-> TRUE, endpoint |-> endpoint, request |-> request, params |-> params,
     cached |-> FALSE, resolved |-> FALSE, row |-> NoRow,
     status |-> status, kind |-> kind, body |-> body]

\* the answer built from the resolver's result
Resolved(endpoint, request, params, row, status, kind, body) ==
    [Reply(endpoint, request, params, status, kind, body) EXCEPT
       !.resolved = TRUE, !.row = row]

\* a cached string that json.Unmarshal does not decode
Undecodable == [kind |-> "undecodable", body |-> <<>>]

\* expoUpdateSetCachedResponse on cache c: the cache afterwards, an error of
\* the cache leaving it as it was
expoUpdateSetCachedResponse(c, params, kind, body, setOk) ==
    LET key == expoUpdateCacheKey(params) IN
    IF setOk
    THEN [k \in DOMAIN c \cup {key} |->
            IF k = key THEN [kind |-> kind, body |-> body] ELSE c[k]]
    ELSE c

\* the cached string is handed back although it does not decode
expoUpdateCachedResponse_Undecoded(c, params, getOk) ==
    LET key == expoUpdateCacheKey(params) IN
    IF getOk /\ key \in DOMAIN c
    THEN [err |-> FALSE, found |-> TRUE, cachedResponse |-> c[key]]
    ELSE [err |-> ~getOk, found |-> FALSE, cachedResponse |-> Undecodable]

\* expoUpdateCachedResponse on cache c: cache.Get, then json.Unmarshal of a
\* non-empty string; [err, found, cachedResponse]
expoUpdateCachedResponse(c, params, getOk) ==
    LET key == expoUpdateCacheKey(params) IN
    IF ~getOk THEN [err |-> TRUE, found |-> FALSE, cachedResponse |-> Undecodable]
    ELSE IF key \notin DOMAIN c
    THEN [err |-> FALSE, found |-> FALSE, cachedResponse |-> Undecodable]
    ELSE IF c[key] = Undecodable
    THEN [err |-> TRUE, found |-> FALSE, cachedResponse |-> Undecodable]
    ELSE [err |-> FALSE, found |-> TRUE, cachedResponse |-> c[key]]

\* an update check reads the stores and writes none of them
ReadOnly ==
    /\ lastWrite' = NoWrite
    /\ ret' = NoRet
    /\ resp' = NoResp
    /\ UNCHANGED <<updates, bucket, update_metadata, assets, stream, advisories, worker, commits, rollbacks, call, blobs, worker2>>

\* an answer of GetExpoUpdate and the cache it leaves
Answer(r, c) == [reply |-> r, cache |-> c]

\* apiServer.GetExpoUpdate against cache c: the answers it may give.
\* getOk: cache.Get succeeds; ok: the calls to the SQL store and the URL
\* signer succeed; setOk: cache.Set succeeds.
GetExpoUpdateAnswers(request, c, getOk, ok, setOk) ==
    LET p == expoUpdateParseParams(request) IN
    IF p.err
    THEN { Answer(Reply("expo", request, <<>>, 400, "validation", <<>>), c) }
    ELSE
    LET params == p.params
        cached == expoUpdateCachedResponse(c, params, getOk)
    IN
    IF ~cached.err /\ cached.found
    THEN { Answer([Reply("expo", request, params, 200, cached.cachedResponse.kind,
                         cached.cachedResponse.body) EXCEPT !.cached = TRUE], c) }
    ELSE IF ~ok
    THEN { Answer(Reply("expo", request, params, 500, "error", <<>>), c) }
    ELSE IF request.project_id \notin Projects
    THEN { Answer(Reply("expo", request, params, 400, "project not found", <<>>), c) }
    ELSE IF Protocol(request.project_id) # "expo"
    THEN { Answer(Reply("expo", request, params, 400, "wrong protocol", <<>>), c) }
    ELSE
    UNION {
      LET result == UpdateToInstall(rows, [ID |-> params.CurrentUpdateId, SHA256 |-> NilSHA])
          row == result.row
      IN
      IF result.err
      THEN { Answer(Resolved("expo", request, params, row, 500, "error", <<>>), c) }
      ELSE IF row # NoRow /\ row.Update.status = "published"
      THEN { IF m.err
             THEN Answer(Resolved("expo", request, params, row, 500, "error", <<>>), c)
             ELSE Answer(Resolved("expo", request, params, row, 200, "manifest", m.manifest),
                         expoUpdateSetCachedResponse(c, params, "manifest", m.manifest, setOk)) :
               m \in UpdateManifest(row.Update, params.Platform) }
      ELSE IF row # NoRow /\ row.Update.status = "canceled"
      THEN { Answer(Resolved("expo", request, params, row, 200, "rollBackToEmbedded", <<>>),
                    expoUpdateSetCachedResponse(c, params, "rollBackToEmbedded", <<>>, setOk)) }
      ELSE { Answer(Resolved("expo", request, params, row, 200, "noUpdateAvailable", <<>>),
                    expoUpdateSetCachedResponse(c, params, "noUpdateAvailable", <<>>, setOk)) } :
      rows \in GetLatestPublishedAndCanceledUpdates(
                 [project_id |-> request.project_id,
                  runtime_version |-> params.RuntimeVersion,
                  channel |-> params.Channel,
                  platform |-> params.Platform]) }

\* apiServer.GetExpoUpdate
GetExpoUpdate(request, getOk, ok, setOk) ==
    /\ ~reply.called
    /\ ReadOnly
    /\ \E answer \in GetExpoUpdateAnswers(request, cache, getOk, ok, setOk) :
         /\ reply' = answer.reply
         /\ cache' = answer.cache

\* the string cached under a key is damaged in the cache service
CacheCorrupt(key) ==
    /\ key \in DOMAIN cache
    /\ cache[key] # Undecodable
    /\ cache' = [cache EXCEPT ![key] = Undecodable]
    /\ reply' = NoReply
    /\ ReadOnly

\* an entry of the cache outlives its 24 h
CacheExpire(key) ==
    /\ key \in DOMAIN cache
    /\ cache' = [k \in DOMAIN cache \ {key} |-> cache[k]]
    /\ reply' = NoReply
    /\ ReadOnly

\* ------------------------------------------------------------------------
\* Device update checks: the CodePush endpoint
\* ------------------------------------------------------------------------
\* uuid.Parse succeeds
IsUUID(str) == str \in Projects \cup {"test_none"}

\* the rest of a deployment key after its second "/" (strings.SplitN(.., 3))
JoinSlash(segs) ==
    IF Len(segs) = 1 THEN segs[1]
    ELSE IF segs = <<"production", "x">> THEN "production/x"
    ELSE "other"

\* codepush.ParseDeploymentKey over a key given by its "/"-separated segments
ParseDeploymentKey(deploymentKey) ==
    IF Len(deploymentKey) < 3 \/ ~IsUUID(deploymentKey[1])
    THEN [err |-> TRUE, projectID |-> "", platform |-> "", channel |-> ""]
    ELSE [err |-> FALSE, projectID |-> deploymentKey[1], platform |-> deploymentKey[2],
          channel |-> JoinSlash(SubSeq(deploymentKey, 3, Len(deploymentKey)))]

\* update_assets.content_length of a row: the size of the object it stands for
ContentLength(a) == 100 * a.content_sha256[1] + Len(a.content_sha256)

\* Bucket().SignedURL(asset.StorageObjectPath) for a download
SignedURL(a) == <<"GET", a.update_id, a.platform, a.path>>

\* GetLaunchAssetOrArchiveByPlatform: the rows `limit 1` may return
GetLaunchAssetOrArchiveByPlatform(id, platform) ==
    LET rs == { a \in AssetRows : /\ a.update_id = id
                                  /\ a.platform = platform
                                  /\ (a.is_launch_asset \/ a.is_archive) }
        before(a, b) == \/ a.is_archive /\ ~b.is_archive
                        \/ a.is_archive = b.is_archive /\ a.is_launch_asset /\ ~b.is_launch_asset
    IN  { a \in rs : \A b \in rs : ~before(b, a) }

\* the answer for "no update"
CodePushNoUpdate ==
    [IsAvailable |-> FALSE, IsMandatory |-> FALSE, ShouldRunBinaryVersion |-> TRUE,
     UpdateAppVersion |-> FALSE, Label |-> "", AppVersion |-> "", TargetBinaryRange |-> "",
     PackageHash |-> NilSHA, PackageSize |-> 0, DownloadURL |-> ""]

\* codepush service.UpdateToInstall: the possible results, [err, info]
CodePushUpdateToInstall(update, platform) ==
    LET as == GetLaunchAssetOrArchiveByPlatform(update.id, platform) IN
    IF as = {}
    THEN { [err |-> TRUE, info |-> <<>>] }
    ELSE { [err |-> FALSE,
            info |-> [IsAvailable |-> TRUE, IsMandatory |-> TRUE,
                      ShouldRunBinaryVersion |-> FALSE, UpdateAppVersion |-> FALSE,
                      Label |-> update.id,
                      AppVersion |-> update.runtime_version,
                      TargetBinaryRange |-> update.runtime_version,
                      PackageHash |-> a.content_sha256,
                      PackageSize |-> ContentLength(a),
                      DownloadURL |-> SignedURL(a)]] : a \in as }

\* apiServer.GetCodePushUpdate.  ok: the calls to the SQL store and the URL
\* signer succeed.
GetCodePushUpdate(request, ok) ==
    /\ ~reply.called
    /\ ReadOnly
    /\ UNCHANGED cache
    /\ LET key == ParseDeploymentKey(request.DeploymentKey)
           appVersion == semverNewVersion(request.AppVersion)
       IN
       IF key.err
       THEN reply' = Reply("codepush", request, <<>>, 400, "invalid deployment key", <<>>)
       ELSE IF appVersion = <<>>
       THEN reply' = Reply("codepush", request, <<>>, 400, "invalid app version", <<>>)
       ELSE
       LET params == [project_id |-> key.projectID,
                      runtime_version |-> semverString(appVersion),
                      channel |-> key.channel,
                      platform |-> key.platform]
       IN
       IF ~ok
       THEN reply' = Reply("codepush", request, params, 500, "error", <<>>)
       ELSE IF key.projectID \notin Projects
       THEN reply' = Reply("codepush", request, params, 400, "project not found", <<>>)
       ELSE IF Protocol(key.projectID) # "codepush"
       THEN reply' = Reply("codepush", request, params, 400, "wrong protocol", <<>>)
       ELSE
       \E rows \in GetLatestPublishedAndCanceledUpdates(params) :
         LET result == UpdateToInstall(rows, [ID |-> NilID, SHA256 |-> request.PackageHash])
             row == result.row
         IN
         IF result.err
         THEN reply' = Resolved("codepush", request, params, row, 500, "error", <<>>)
         ELSE IF row = NoRow
         THEN reply' = Resolved("codepush", request, params, row, 200,
                                "updateInfo", CodePushNoUpdate)
         ELSE \E u \in CodePushUpdateToInstall(row.Update, key.platform) :
                IF u.err
                THEN reply' = Resolved("codepush", request, params, row, 500, "error", <<>>)
                ELSE reply' = Resolved("codepush", request, params, row, 200,
                                       "updateInfo", u.info)

\* ------------------------------------------------------------------------
\* Object keys, the archive hash and the upload limit
\* ------------------------------------------------------------------------
\* A Go string is the sequence of its characters, "" is <<>>.

\* the byte of a character: strings are ordered bytewise
Byte(c) ==
    CASE c = "." -> 46 [] c = "/" -> 47 [] c = "1" -> 49 [] c = "2" -> 50
      [] c = ":" -> 58 [] c = "a" -> 97 [] c = "b" -> 98

\* s < t for strings
StringLess(s, t) ==
    \E i \in 1..Len(t) :
      /\ i - 1 <= Len(s)
      /\ \A j \in 1..(i - 1) : s[j] = t[j]
      /\ (Len(s) = i - 1 \/ Byte(s[i]) < Byte(t[i]))

\* strings.HasPrefix
HasPrefix(s, prefix) ==
    Len(prefix) <= Len(s) /\ SubSeq(s, 1, Len(prefix)) = prefix

\* strings.CutPrefix: s without the leading prefix, s itself when it has none
CutPrefix(s, prefix) ==
    IF HasPrefix(s, prefix) THEN SubSeq(s, Len(prefix) + 1, Len(s)) ELSE s

\* strings.Contains
Contains(s, substr) ==
    \E i \in 1..(Len(s) + 1) : HasPrefix(SubSeq(s, i, Len(s)), substr)

\* strings.Split on a one-character separator: every substring between separators
RECURSIVE Split(_, _)
Split(s, sep) ==
    LET at == { i \in 1..Len(s) : s[i] = sep } IN
    IF at = {} THEN <<s>>
    ELSE LET i == CHOOSE j \in at : \A k \in at : j <= k
         IN  <<SubSeq(s, 1, i - 1)>> \o Split(SubSeq(s, i + 1, Len(s)), sep)

\* the split without the limit n
SplitN_Unlimited(s, sep, n) == Split(s, sep)

\* strings.SplitN on a one-character separator, n > 0: at most n substrings,
\* the last one the unsplit remainder
RECURSIVE SplitN(_, _, _)
SplitN(s, sep, n) ==
    LET at == { i \in 1..Len(s) : s[i] = sep } IN
    IF n = 1 \/ at = {} THEN <<s>>
    ELSE LET i == CHOOSE j \in at : \A k \in at : j <= k
         IN  <<SubSeq(s, 1, i - 1)>> \o SplitN(SubSeq(s, i + 1, Len(s)), sep, n - 1)

\* strings.Join with "/"
RECURSIVE JoinPath(_)
JoinPath(elems) ==
    IF elems = <<>> THEN <<>>
    ELSE IF Len(elems) = 1 THEN elems[1]
    ELSE elems[1] \o <<"/">> \o JoinPath(Tail(elems))

\* path.Split: the directory up to and including the final slash, and the file
PathSplit(str) ==
    LET at == { i \in 1..Len(str) : str[i] = "/" }
        i == IF at = {} THEN 0 ELSE CHOOSE j \in at : \A k \in at : k <= j
    IN  [dir |-> SubSeq(str, 1, i), file |-> SubSeq(str, i + 1, Len(str))]

\* no path is absolute
IsAbs_Never(str) == FALSE

\* path.IsAbs
IsAbs(str) == HasPrefix(str, <<"/">>)

\* validateAssetPath: the asset_path validation
validateAssetPath(str) ==
    LET split == PathSplit(str) IN
    ~IsAbs(str) /\ ~Contains(split.dir, <<".", ".">>) /\ split.file # <<>>

\* the characters extRegex allows after the leading dot: [a-zA-Z0-9\.\-]
ExtClass ==
    { "a", "b", "c", "d", "e", "f", "g", "h", "i", "j", "k", "l", "m",
      "n", "o", "p", "q", "r", "s", "t", "u", "v", "w", "x", "y", "z",
      "A", "B", "C", "D", "E", "F", "G", "H", "I", "J", "K", "L", "M",
      "N", "O", "P", "Q", "R", "S", "T", "U", "V", "W", "X", "Y", "Z",
      "0", "1", "2", "3", "4", "5", "6", "7", "8", "9", ".", "-" }

\* validateAssetExt: extRegex.MatchString
validateAssetExt(str) ==
    /\ Len(str) >= 2
    /\ str[1] = "."
    /\ \A i \in 2..Len(str) : str[i] \in ExtClass

\* the binding tag "required" on a string field
required(str) == str # <<>>

\* FileMetadataAsset: path "required,asset_path,max=1024", ext "required,asset_ext,max=16"
validateFileMetadataAsset(asset) ==
    /\ required(asset.path) /\ validateAssetPath(asset.path) /\ Len(asset.path) <= 1024
    /\ required(asset.ext) /\ validateAssetExt(asset.ext) /\ Len(asset.ext) <= 16

\* FileMetadata: bundle "required", assets "dive"
validateFileMetadata(fm) ==
    /\ required(fm.bundle)
    /\ \A i \in 1..Len(fm.assets) : validateFileMetadataAsset(fm.assets[i])

\* a key that the JSON object does not carry
Absent == <<"<absent>">>

\* json Decode into Metadata: a missing string field is the empty string
Decode(doc) ==
    [ p \in DOMAIN doc.fileMetadata |->
        [bundle |-> IF doc.fileMetadata[p].bundle = Absent THEN <<>>
                    ELSE doc.fileMetadata[p].bundle,
         assets |-> doc.fileMetadata[p].assets] ]

\* ParseMetadata: Decode, then ValidateStruct (fileMetadata "dive")
ParseMetadata(doc) ==
    IF ~doc.wellFormed THEN [err |-> "error", metadata |-> <<>>]
    ELSE LET metadata == Decode(doc) IN
         IF \A p \in DOMAIN metadata : validateFileMetadata(metadata[p])
         THEN [err |-> "none", metadata |-> metadata]
         ELSE [err |-> "error", metadata |-> <<>>]

\* filepath.Clean over the elements still to read; out: the elements kept
RECURSIVE CleanElems(_, _, _)
CleanElems(elems, out, rooted) ==
    IF elems = <<>> THEN out
    ELSE LET e == Head(elems)
             rest == Tail(elems)
         IN  IF e = <<>> \/ e = <<".">> THEN CleanElems(rest, out, rooted)
             ELSE IF e = <<".", ".">>
             THEN IF out # <<>> /\ out[Len(out)] # <<".", ".">>
                  THEN CleanElems(rest, SubSeq(out, 1, Len(out) - 1), rooted)
                  ELSE IF rooted THEN CleanElems(rest, out, rooted)
                  ELSE CleanElems(rest, Append(out, e), rooted)
             ELSE CleanElems(rest, Append(out, e), rooted)

\* CleanPath: filepath.Clean(filepath.ToSlash(path)), the separator being "/"
CleanPath(path) ==
    LET rooted == IsAbs(path)
        kept == JoinPath(CleanElems(Split(path, "/"), <<>>, rooted))
    IN  IF rooted THEN <<"/">> \o kept
        ELSE IF kept = <<>> THEN <<".">>
        ELSE kept

\* AssetObjectKey: "%s/%s/%s"
AssetObjectKey(projectID, updateId, path) ==
    projectID \o <<"/">> \o updateId \o <<"/">> \o path

\* AssetObjectKeySegments: <<projectID, updateID, path>>
AssetObjectKeySegments(assetObjectKey) ==
    LET segments == SplitN(assetObjectKey, "/", 3) IN
    IF Len(segments) # 3 THEN << <<>>, <<>>, <<>> >>
    ELSE <<segments[1], segments[2], CutPrefix(segments[3], <<"/">>)>>

\* fmt.Sprintf("%s:%s", filePath, asset.ContentSha256)
ArchiveToken(asset) ==
    AssetObjectKeySegments(asset.StorageObjectPath)[3] \o <<":">> \o asset.ContentSha256

\* the tokens without any sorting
slicesSort_Keep(tokens) == tokens

\* slices.Sort of a slice of strings
RECURSIVE slicesSort(_)
slicesSort(tokens) ==
    IF tokens = <<>> THEN <<>>
    ELSE LET sorted == slicesSort(Tail(tokens))
             t == Head(tokens)
             n == Cardinality({ i \in 1..Len(sorted) : StringLess(sorted[i], t) })
         IN  SubSeq(sorted, 1, n) \o <<t>> \o SubSeq(sorted, n + 1, Len(sorted))

\* calculateSHA256ForArchive over the slice of asset rows it is given: the
\* digest, injective in the marshalled JSON array
calculateSHA256ForArchiveOf(assetList) ==
    LET tokens == [ i \in 1..Len(assetList) |-> ArchiveToken(assetList[i]) ]
    IN  <<"sha256", slicesSort(tokens)>>

\* MaxUpdateTotalSizeMB
MaxUpdateTotalSizeMB == 100

\* MaxObjectSize, the largest content_length of one object
MaxObjectSize == 100 * 1024 * 1024

\* the loop totalSize += object.ContentLength
RECURSIVE TotalSize(_)
TotalSize(objects) ==
    IF objects = <<>> THEN 0
    ELSE objects[1].ContentLength + TotalSize(Tail(objects))

\* the limit test with the limit included
UpdateTooLarge_AtLimit(totalSize) == totalSize >= MaxUpdateTotalSizeMB * 1024 * 1024

\* totalSize > MaxUpdateTotalSizeMB*1024*1024
UpdateTooLarge(totalSize) == totalSize > MaxUpdateTotalSizeMB * 1024 * 1024

\* Storage.UploadURLs.  failAt: the object whose bucket.SignedURL fails, 0 for
\* none.  [err, urls, signed: the number of SignedURL calls made]
UploadURLs(projectID, updateID, objects, failAt) ==
    IF UpdateTooLarge(TotalSize(objects))
    THEN [err |-> "ErrUpdateTooLarge", urls |-> <<>>, signed |-> 0]
    ELSE IF failAt \in 1..Len(objects)
    THEN [err |-> "error", urls |-> <<>>, signed |-> failAt]
    ELSE [err |-> "none",
          urls |-> [ i \in 1..Len(objects) |->
                       [Path |-> objects[i].Path,
                        Url |-> <<"PUT", AssetObjectKey(projectID, updateID,
                                                         CleanPath(objects[i].Path)),
                                  objects[i].ContentType>>] ],
          signed |-> Len(objects)]

\* apiServer.PrepareUpdate on the error of updateSvc.PrepareUpdate, which is
\* the error of UploadURLs wrapped, and the error handling middleware
PrepareUpdateResponse(err) ==
    IF err = "ErrUpdateTooLarge"
    THEN [status |-> 400, field |-> "file_metadata",
          message |-> <<"UploadURLs: ", "max update size is 100MB">>]
    ELSE IF err # "none"
    THEN [status |-> 500, field |-> "", message |-> <<"updateSvc.PrepareUpdate: ", err>>]
    ELSE [status |-> 201, field |-> "", message |-> <<>>]

\* a followed call: the function computes its result from the arguments
Return(result) ==
    /\ call' = [call EXCEPT !.pc = "done", !.result = result]
    /\ lastWrite' = NoWrite
    /\ ret' = NoRet
    /\ resp' = NoResp
    /\ reply' = NoReply
    /\ UNCHANGED <<updates, bucket, update_metadata, assets, stream, advisories, worker, commits, rollbacks, cache, blobs, worker2>>

\* calculateSHA256ForArchive(assets)
CalculateSHA256ForArchiveCall ==
    /\ call.fn = "calculateSHA256ForArchive"
    /\ call.pc = "start"
    /\ Return(calculateSHA256ForArchiveOf(call.args))

\* AssetObjectKeySegments(AssetObjectKey(projectID, updateId, path))
AssetObjectKeyCall ==
    /\ call.fn = "AssetObjectKey"
    /\ call.pc = "start"
    /\ Return(AssetObjectKeySegments(
                AssetObjectKey(call.args.projectID, call.args.updateId, call.args.path)))

\* UploadURLs: the object key the upload URL of a client path is signed for
SignedObjectKey(projectID, updateID, path) ==
    AssetObjectKey(projectID, updateID, CleanPath(path))

\* assetParser.parse: the object key the worker reads for a path of metadata.json
parseObjectKey(projectID, updateID, filePath) ==
    AssetObjectKey(projectID, updateID, filePath)

\* one client path through the validation, UploadURLs and assetParser.parse
ObjectKeysCall ==
    /\ call.fn = "ObjectKeys"
    /\ call.pc = "start"
    /\ Return([valid |-> validateAssetPath(call.args.path),
               signed |-> SignedObjectKey(call.args.projectID, call.args.updateID,
                                          call.args.path),
               read |-> parseObjectKey(call.args.projectID, call.args.updateID,
                                       call.args.path)])

\* the asset_path validation of one field value
ValidateAssetPathCall ==
    /\ call.fn = "validateAssetPath"
    /\ call.pc = "start"
    /\ Return(validateAssetPath(call.args))

\* ParseMetadata(r) on the bytes of one metadata.json
ParseMetadataCall ==
    /\ call.fn = "ParseMetadata"
    /\ call.pc = "start"
    /\ Return(ParseMetadata(call.args))

\* the binding tag "uuid" on a string field
uuid(str) == str \in { <<"a", "1">>, <<"b", "2">> }

\* fileblob.NewURLSignerHMAC: the signature URLFromKey puts in the URL of a key
HMAC(key) == <<"hmac">> \o key

\* URLSigner.KeyFromURL: the key of the URL if its signature verifies
KeyFromURL(url) ==
    IF url.signature = HMAC(url.obj) THEN [err |-> FALSE, key |-> url.obj]
    ELSE [err |-> TRUE, key |-> <<>>]

\* uploadAssetParams of a request, validated: ProjectID and UpdateID
\* "required,uuid", Path "required,asset_path" (the cleaned path),
\* ContentLength "required,min=1,max_object_size"
uploadAssetParams(objectKey, contentLength) ==
    LET segments == AssetObjectKeySegments(objectKey)
        params == [ProjectID |-> segments[1], UpdateID |-> segments[2],
                   Path |-> CleanPath(segments[3]), ContentLength |-> contentLength]
    IN  /\ required(params.ProjectID) /\ uuid(params.ProjectID)
        /\ required(params.UpdateID) /\ uuid(params.UpdateID)
        /\ required(params.Path) /\ validateAssetPath(params.Path)
        /\ params.ContentLength # 0 /\ params.ContentLength >= 1
        /\ params.ContentLength <= MaxObjectSize

\* service.Upload: Bucket().NewWriter, io.Copy, and the deferred Close that
\* commits what was copied; failAt: the call that fails
Upload(body, objectKey, failAt) ==
    IF failAt = "NewWriter" THEN UNCHANGED blobs
    ELSE blobs' = [k \in DOMAIN blobs \cup {objectKey} |->
                       IF k # objectKey THEN blobs[k]
                       ELSE IF failAt = "Copy" THEN <<>> ELSE body]

\* handleUploadAsset: PUT /assets in local storage mode.  The answer is the
\* status the error handling middleware gives: 401 for the HTTPError, 400
\* for validation errors, 500 for any other error.
handleUploadAsset(request, failAt) ==
    LET keyFromURL == KeyFromURL(request.url)
        status == IF keyFromURL.err THEN 401
                  ELSE IF ~uploadAssetParams(keyFromURL.key, request.ContentLength) THEN 400
                  ELSE IF failAt # "none" THEN 500
                  ELSE 200
    IN  /\ status \in {401, 400} => failAt = "none"
        /\ IF status \in {401, 400} THEN UNCHANGED blobs
           ELSE Upload(request.Body, keyFromURL.key, failAt)
        /\ call' = [fn |-> "handleUploadAsset", args |-> request, pc |-> "done",
                    result |-> <<status>>]
        /\ lastWrite' = NoWrite
        /\ ret' = NoRet
        /\ resp' = NoResp
        /\ reply' = NoReply
        /\ UNCHANGED <<updates, bucket, update_metadata, assets, stream, advisories, worker,
                       commits, rollbacks, cache, worker2>>

\* UploadURLs(projectID, updateID, objects) and the answer of PrepareUpdate
UploadURLsCall ==
    /\ call.fn = "UploadURLs"
    /\ call.pc = "start"
    /\ LET r == UploadURLs(call.args.projectID, call.args.updateID,
                           call.args.objects, call.args.failAt)
       IN  Return([err |-> r.err, urls |-> r.urls, signed |-> r.signed,
                   response |-> PrepareUpdateResponse(r.err)])

\* ------------------------------------------------------------------------
\* Specifications
\* ------------------------------------------------------------------------
\* the calls in progress and the messages published are bounded
MayCommit(n) == Len(stream) + BagCardinality(commits) < n

MayRollback == BagCardinality(rollbacks) < MaxInFlight

BadFiles == IF worker.pc = "ingest" THEN SUBSET Files(bucket[Msg.update_id]) ELSE {{}}

\* The lifecycle of one update: API calls and worker steps interleave, and
\* every call to the SQL store, the blob store and the queue may fail.
LifecycleRequests ==
    { r \in PrepareRequests : r.runtime_version = "1.0.0" /\ r.channel = DefaultChannelName }

LifecycleUploads == {IosBundle, BothPlatforms}

Next ==
    \/ \E req \in LifecycleRequests, upload \in LifecycleUploads, ok \in BOOLEAN :
         Len(updates) < MaxUpdates
         /\ PrepareUpdate(req, upload, FALSE, IF ok THEN "none" ELSE "Commit")
    \/ \E project_id \in Projects, id \in 1..MaxUpdates, ok \in BOOLEAN :
         MayCommit(MaxPublishes) /\ CommitUpdate(project_id, id, ok)
    \/ \E id \in UpdateIDs, ok \in BOOLEAN : PublishProcessUpdateMessage(id, ok)
    \/ \E project_id \in Projects, id \in 1..MaxUpdates, ok \in BOOLEAN :
         MayRollback /\ RollbackUpdate(project_id, id, ok)
    \/ \E id \in UpdateIDs, ok \in BOOLEAN : RollbackUpdateSet(id, ok)
    \/ \E seq \in 1..Len(stream) : Deliver(seq)
    \/ \E ok \in BOOLEAN : ProcessUpdateGet(ok)
    \/ \E ok \in BOOLEAN : ProcessUpdateSetProcessing(ok)
    \/ \E metaOk \in BOOLEAN, ok \in BOOLEAN, bad \in BadFiles :
         ProcessUpdateIngest(metaOk, bad, ok)
    \/ \E archOk \in BOOLEAN, ok \in BOOLEAN : ProcessUpdateArchive(archOk, ok)
    \/ \E ok \in BOOLEAN : ProcessUpdatePublish(ok)
    \/ \E ok \in BOOLEAN : HandlerAck(ok)
    \/ \E ok \in BOOLEAN : HandlerTerm(ok)
    \/ \E ok \in BOOLEAN : HandlerNak(ok)
    \/ \E seq \in 1..Len(stream) : MaxDeliveriesAdvisory(seq)
    \/ \E seq \in advisories, getOk \in BOOLEAN, setOk \in BOOLEAN, delOk \in BOOLEAN :
         maxDeliveriesHandlerWrapper(seq, getOk, setOk, delOk)

Spec == Init /\ [][Next]_vars

\* The same lifecycle with a single CommitUpdate reaching the queue: no
\* commit is issued once a message of the update is published.
NextSingleCommit ==
    \/ \E req \in LifecycleRequests, upload \in LifecycleUploads, ok \in BOOLEAN :
         Len(updates) < MaxUpdates
         /\ PrepareUpdate(req, upload, FALSE, IF ok THEN "none" ELSE "Commit")
    \/ \E project_id \in Projects, id \in 1..MaxUpdates, ok \in BOOLEAN :
         MayCommit(1) /\ CommitUpdate(project_id, id, ok)
    \/ \E id \in UpdateIDs, ok \in BOOLEAN : PublishProcessUpdateMessage(id, ok)
    \/ \E project_id \in Projects, id \in 1..MaxUpdates, ok \in BOOLEAN :
         MayRollback /\ RollbackUpdate(project_id, id, ok)
    \/ \E id \in UpdateIDs, ok \in BOOLEAN : RollbackUpdateSet(id, ok)
    \/ \E seq \in 1..Len(stream) : Deliver(seq)
    \/ \E ok \in BOOLEAN : ProcessUpdateGet(ok)
    \/ \E ok \in BOOLEAN : ProcessUpdateSetProcessing(ok)
    \/ \E metaOk \in BOOLEAN, ok \in BOOLEAN, bad \in BadFiles :
         ProcessUpdateIngest(metaOk, bad, ok)
    \/ \E archOk \in BOOLEAN, ok \in BOOLEAN : ProcessUpdateArchive(archOk, ok)
    \/ \E ok \in BOOLEAN : ProcessUpdatePublish(ok)
    \/ \E ok \in BOOLEAN : HandlerAck(ok)
    \/ \E ok \in BOOLEAN : HandlerTerm(ok)
    \/ \E ok \in BOOLEAN : HandlerNak(ok)
    \/ \E seq \in 1..Len(stream) : MaxDeliveriesAdvisory(seq)
    \/ \E seq \in advisories, getOk \in BOOLEAN, setOk \in BOOLEAN, delOk \in BOOLEAN :
         maxDeliveriesHandlerWrapper(seq, getOk, setOk, delOk)

SpecSingleCommit == Init /\ [][NextSingleCommit]_vars

\* One update committed once, a worker that may exit and restart at any
\* moment, and no failing call to the SQL store or the queue: a delivery
\* fails only when a file of the update cannot be read.
NextRestart ==
    \/ \E req \in LifecycleRequests, upload \in LifecycleUploads :
         Len(updates) < MaxUpdates /\ PrepareUpdate(req, upload, FALSE, "none")
    \/ \E project_id \in Projects, id \in 1..MaxUpdates :
         MayCommit(1) /\ CommitUpdate(project_id, id, TRUE)
    \/ \E id \in UpdateIDs : PublishProcessUpdateMessage(id, TRUE)
    \/ \E seq \in 1..Len(stream) : Deliver(seq)
    \/ ProcessUpdateGet(TRUE)
    \/ ProcessUpdateSetProcessing(TRUE)
    \/ \E bad \in BadFiles : ProcessUpdateIngest(TRUE, bad, TRUE)
    \/ ProcessUpdateArchive(TRUE, TRUE)
    \/ ProcessUpdatePublish(TRUE)
    \/ HandlerAck(TRUE)
    \/ HandlerTerm(TRUE)
    \/ HandlerNak(TRUE)
    \/ WorkerExit
    \/ \E seq \in 1..Len(stream) : MaxDeliveriesAdvisory(seq)
    \/ \E seq \in advisories : maxDeliveriesHandlerWrapper(seq, TRUE, TRUE, TRUE)

SpecRestart == Init /\ [][NextRestart]_vars

\* Two worker instances consume the durable consumer "process-update": each
\* holds at most one message (PullMaxMessages(1)) and runs its handler to the
\* end before it takes the next one. `worker` is the handler of the instance
\* that takes the next step and `worker2` the handler of the other one.
SwitchWorker ==
    /\ worker # worker2
    /\ worker' = worker2
    /\ worker2' = worker
    /\ lastWrite' = NoWrite
    /\ ret' = NoRet
    /\ resp' = NoResp
    /\ reply' = NoReply
    /\ UNCHANGED <<updates, bucket, update_metadata, assets, stream, advisories, commits,
                   rollbacks, cache, call, blobs>>

\* One update, committed up to MaxPublishes times, and two worker instances;
\* no call to the SQL store, the blob store or the queue fails.
NextTwoWorkers ==
    \/ \E req \in LifecycleRequests, upload \in LifecycleUploads :
         Len(updates) < MaxUpdates /\ PrepareUpdate(req, upload, FALSE, "none")
    \/ \E project_id \in Projects, id \in 1..MaxUpdates :
         MayCommit(MaxPublishes) /\ CommitUpdate(project_id, id, TRUE)
    \/ \E id \in UpdateIDs : PublishProcessUpdateMessage(id, TRUE)
    \/ \E seq \in 1..Len(stream) : Deliver(seq)
    \/ ProcessUpdateGet(TRUE)
    \/ ProcessUpdateSetProcessing(TRUE)
    \/ ProcessUpdateIngest(TRUE, {}, TRUE)
    \/ ProcessUpdateArchive(TRUE, TRUE)
    \/ ProcessUpdatePublish(TRUE)
    \/ HandlerAck(TRUE)
    \/ HandlerTerm(TRUE)
    \/ SwitchWorker

SpecTwoWorkers == Init /\ [][NextTwoWorkers]_vars

\* the steps of the single worker's message handler, any call of a
\* processing attempt failing or not
WorkerNext ==
    \/ \E seq \in 1..Len(stream) : Deliver(seq)
    \/ \E ok \in BOOLEAN : ProcessUpdateGet(ok)
    \/ \E ok \in BOOLEAN : ProcessUpdateSetProcessing(ok)
    \/ \E metaOk \in BOOLEAN, ok \in BOOLEAN, bad \in BadFiles :
         ProcessUpdateIngest(metaOk, bad, ok)
    \/ \E archOk \in BOOLEAN, ok \in BOOLEAN : ProcessUpdateArchive(archOk, ok)
    \/ \E ok \in BOOLEAN : ProcessUpdatePublish(ok)
    \/ \E ok \in BOOLEAN : HandlerAck(ok)
    \/ \E ok \in BOOLEAN : HandlerTerm(ok)
    \/ \E ok \in BOOLEAN : HandlerNak(ok)

\* the steps of the queue and of the max-deliveries subscription, which succeed
QueueNext ==
    \/ \E seq \in 1..Len(stream) : MaxDeliveriesAdvisory(seq)
    \/ \E seq \in advisories : maxDeliveriesHandlerWrapper(seq, TRUE, TRUE, TRUE)

\* One update committed once by calls that succeed, then the queue and the
\* worker: the worker keeps running and takes a step whenever its handler
\* has one to take, and the queue delivers what it holds.
NextLive ==
    \/ \E req \in LifecycleRequests, upload \in LifecycleUploads :
         Len(updates) < MaxUpdates /\ PrepareUpdate(req, upload, FALSE, "none")
    \/ \E project_id \in Projects, id \in 1..MaxUpdates :
         MayCommit(1) /\ CommitUpdate(project_id, id, TRUE)
    \/ \E id \in UpdateIDs : PublishProcessUpdateMessage(id, TRUE)
    \/ WorkerNext
    \/ QueueNext

SpecLive == Init /\ [][NextLive]_vars /\ WF_vars(WorkerNext) /\ WF_vars(QueueNext)

\* Update checks against the stores that failure-free runs build, one call
\* at a time (a call and the processing it starts finish before the next
\* call starts; update checks come at any moment): several updates per
\* project, processed, republished and rolled back.
Quiet ==
    /\ worker.pc = "idle"
    /\ commits = EmptyBag
    /\ rollbacks = EmptyBag
    /\ \A seq \in 1..Len(stream) : stream[seq].st = "gone"

\* every update so far is published or canceled
Settled == \A i \in UpdateIDs : updates[i].status \in {"published", "canceled"}

ResolveInputs ==
    { in \in [req : PrepareRequests, upload : Uploads] :
        \/ in.req \in LifecycleRequests /\ Protocol(in.req.project_id) = "codepush"
        \/ in.req \in LifecycleRequests /\ in.upload # BothPlatforms
        \/ in.upload = IosBundleAndAssets }

\* update checks ask for the default channel of either project
ResolveParams ==
    { q \in QueryParams : q.runtime_version = "1.0.0" /\ q.channel = DefaultChannelName }

NextResolve ==
    \/ \E in \in ResolveInputs :
         Quiet /\ Settled /\ Len(updates) < MaxResolveUpdates /\ PrepareUpdate(in.req, in.upload, FALSE, "none")
    \/ \E id \in UpdateIDs :
         Quiet /\ MayCommit(MaxResolvePublishes) /\ CommitUpdate(updates[id].project_id, id, TRUE)
    \/ \E id \in UpdateIDs : PublishProcessUpdateMessage(id, TRUE)
    \/ \E id \in UpdateIDs : Quiet /\ RollbackUpdate(updates[id].project_id, id, TRUE)
    \/ \E id \in UpdateIDs : RollbackUpdateSet(id, TRUE)
    \/ \E seq \in 1..Len(stream) : Deliver(seq)
    \/ ProcessUpdateGet(TRUE)
    \/ ProcessUpdateSetProcessing(TRUE)
    \/ ProcessUpdateIngest(TRUE, {}, TRUE)
    \/ ProcessUpdateArchive(TRUE, TRUE)
    \/ ProcessUpdatePublish(TRUE)
    \/ HandlerAck(TRUE)
    \/ \E params \in ResolveParams, currentUpdate \in Filters :
         UpdateToInstallCall(params, currentUpdate, TRUE)
    \/ \E params \in ResolveParams :
         UpdateToInstallCall(params, [ID |-> NilID, SHA256 |-> NilSHA], FALSE)

SpecResolve == Init /\ [][NextResolve]_vars

\* Device update checks through the two endpoints, against the stores that
\* failure-free runs build, with the response cache of the Expo endpoint.
CheckInputs ==
    { in \in ResolveInputs : in.req \in LifecycleRequests /\ in.upload # IosBundleAndAssets }
      \cup { in \in ResolveInputs :
               in.req \in LifecycleRequests /\ Protocol(in.req.project_id) = "codepush" }

\* (query parameter, expo-* header) of the runtime version, the platform and
\* the current update id
RuntimeVersionPairs ==
    { <<"1.0", NilParam>>, <<NilParam, "1.0.0">>, <<"1.0.0", "2.0.0">>,
      <<NilParam, NilParam>>, <<"x", "1.0.0">> }

PlatformPairs ==
    { <<"ios", NilParam>>, <<NilParam, "android">>, <<"android", "ios">>, <<"IOS", NilParam>> }

CurrentUpdateIdPairs ==
    { <<NilID, NilID>>, <<1, NilID>>, <<NilID, 1>>, <<1, MaxCheckUpdates + 1>> }

ExpoRequest(pr, rv, pl, id) ==
    [project_id |-> pr,
     RuntimeVersion |-> rv[1], ExpoRuntimeVersion |-> rv[2],
     Platform |-> pl[1], ExpoPlatform |-> pl[2],
     CurrentUpdateId |-> id[1], ExpoCurrentUpdateId |-> id[2]]

\* every platform and current update id for one spelling of the runtime
\* version, the other spellings for one device, and the other projects
ExpoRequests ==
    { ExpoRequest("test_expo", <<"1.0", NilParam>>, pl, id) :
        pl \in PlatformPairs, id \in CurrentUpdateIdPairs }
      \cup { ExpoRequest("test_expo", rv, <<"ios", NilParam>>, <<1, NilID>>) :
               rv \in RuntimeVersionPairs }
      \cup { ExpoRequest(pr, <<"1.0.0", NilParam>>, <<"ios", NilParam>>, <<NilID, NilID>>) :
               pr \in {"test_codepush", "test_none"} }

\* the package hashes devices send: none, one no asset has, one of the store
PackageHashes ==
    {NilSHA, UnknownSHA}
      \cup { a.content_sha256 : a \in { r \in AssetRows : r.is_launch_asset \/ r.is_archive } }

CodePushRequests ==
    { [DeploymentKey |-> <<"test_codepush", pl, "production">>,
       AppVersion |-> v, PackageHash |-> h] :
        pl \in PlatformSet, v \in {"1.0.0", "1.0", "x"}, h \in PackageHashes }
      \cup { [DeploymentKey |-> k, AppVersion |-> "1.0.0", PackageHash |-> NilSHA] :
               k \in { <<"test_expo", "ios", "production">>,
                       <<"test_none", "ios", "production">>,
                       <<"not-a-uuid", "ios", "production">>,
                       <<"test_codepush", "ios">>,
                       <<"test_codepush", "ios", "production", "x">>,
                       <<"test_codepush", "ios", "beta">> } }

\* <<getOk, ok, setOk>>: no call fails, or one of them does
CallOutcomes ==
    { <<TRUE, TRUE, TRUE>>, <<FALSE, TRUE, TRUE>>, <<TRUE, FALSE, TRUE>>, <<TRUE, TRUE, FALSE>> }

\* the cache holds at most MaxCached entries: a further cache.Set fails
CacheRoom(request, setOk) ==
    LET p == expoUpdateParseParams(request) IN
    (setOk /\ ~p.err) =>
      \/ expoUpdateCacheKey(p.params) \in DOMAIN cache
      \/ Cardinality(DOMAIN cache) < MaxCached

NextCheck ==
    \/ \E in \in CheckInputs :
         Quiet /\ Settled /\ Len(updates) < MaxCheckUpdates /\ PrepareUpdate(in.req, in.upload, FALSE, "none")
    \/ \E id \in UpdateIDs :
         Quiet /\ MayCommit(MaxCheckPublishes) /\ CommitUpdate(updates[id].project_id, id, TRUE)
    \/ \E id \in UpdateIDs : PublishProcessUpdateMessage(id, TRUE)
    \/ \E id \in UpdateIDs : Quiet /\ RollbackUpdate(updates[id].project_id, id, TRUE)
    \/ \E id \in UpdateIDs : RollbackUpdateSet(id, TRUE)
    \/ \E seq \in 1..Len(stream) : Deliver(seq)
    \/ ProcessUpdateGet(TRUE)
    \/ ProcessUpdateSetProcessing(TRUE)
    \/ ProcessUpdateIngest(TRUE, {}, TRUE)
    \/ ProcessUpdateArchive(TRUE, TRUE)
    \/ ProcessUpdatePublish(TRUE)
    \/ HandlerAck(TRUE)
    \/ \E request \in ExpoRequests, o \in CallOutcomes :
         CacheRoom(request, o[3]) /\ GetExpoUpdate(request, o[1], o[2], o[3])
    \/ \E request \in CodePushRequests, ok \in BOOLEAN : GetCodePushUpdate(request, ok)
    \/ \E key \in DOMAIN cache : CacheExpire(key)
    \/ \E key \in DOMAIN cache : CacheCorrupt(key)

SpecCheck == Init /\ [][NextCheck]_vars

\* PrepareUpdate calls alone, with and without expo_app_config, each step of
\* the call failing or none.
NextPrepare ==
    \E req \in LifecycleRequests, upload \in LifecycleUploads, expoAppConfig \in BOOLEAN,
       failAt \in PrepareFailures \cup {"none"} :
      Len(updates) < MaxPrepares /\ PrepareUpdate(req, upload, expoAppConfig, failAt)

SpecPrepare == Init /\ [][NextPrepare]_vars

\* The functions of the object keys, the archive hash and the upload limit,
\* each applied to arguments drawn from the sets below.
Strings(chars, n) == UNION { [1..k -> chars] : k \in 0..n }

\* uuid.UUID.String(): no "/" in it
UUIDs == { <<"a", "1">>, <<"b", "2">> }

\* the paths a client may send, accepted by the validation or not
Paths == Strings({"a", "/", "."}, MaxPathLen)

Start(fn, args) == [fn |-> fn, args |-> args, pc |-> "start", result |-> <<>>]

\* field values handed to the asset_path validation, backslashes included
AssetPaths == Strings({"a", "/", ".", "\\"}, MaxPathLen)

ValidateAssetPathCalls == { Start("validateAssetPath", str) : str \in AssetPaths }

\* client paths of the update b2 of project a1
ObjectKeysCalls ==
    { Start("ObjectKeys", [projectID |-> <<"a", "1">>, updateID |-> <<"b", "2">>, path |-> str]) :
        str \in AssetPaths }

\* a string of n characters
Filled(n) == [ i \in 1..n |-> "a" ]

\* bundle fields of a metadata.json: missing, empty, relative, absolute,
\* ".." in the directory, empty file name
MetadataBundles ==
    { Absent, <<>>, <<"a">>, <<"/", "a">>, <<".", ".", "/", "a">>, <<"a", "/">> }

MetadataPaths ==
    { <<>>, <<"a">>, <<"/", "a">>, <<".", ".", "/", "a">>, <<"a", "/">>,
      Filled(1024), Filled(1025) }

MetadataExts ==
    { <<>>, <<".", "a">>, <<"a">>, <<".">>, <<".", "a", "-", ".">>, <<".", "_">>,
      <<".">> \o Filled(15), <<".">> \o Filled(16) }

MetadataAssets ==
    {<<>>} \cup { <<[path |-> path, ext |-> ext]>> : path \in MetadataPaths, ext \in MetadataExts }

\* the android entry next to the ios one: valid, without bundle, with a bad ext
AndroidEntries ==
    { [bundle |-> <<"a">>, assets |-> <<>>],
      [bundle |-> Absent, assets |-> <<>>],
      [bundle |-> <<"a">>, assets |-> <<[path |-> <<"a">>, ext |-> <<"a">>]>>] }

MetadataDocs ==
    { [wellFormed |-> FALSE, fileMetadata |-> <<>>] }
    \cup { [wellFormed |-> TRUE, fileMetadata |-> [ p \in {"ios"} |-> [bundle |-> b, assets |-> a] ]] :
              b \in MetadataBundles, a \in MetadataAssets }
    \cup { [wellFormed |-> TRUE,
            fileMetadata |-> [ p \in {"ios", "android"} |->
                                 IF p = "ios" THEN [bundle |-> b, assets |-> a] ELSE e ]] :
              b \in {<<"a">>}, a \in MetadataAssets, e \in AndroidEntries }

ParseMetadataCalls == { Start("ParseMetadata", doc) : doc \in MetadataDocs }

AssetObjectKeyCalls ==
    { Start("AssetObjectKey", [projectID |-> p, updateId |-> u, path |-> path]) :
        p \in UUIDs, u \in UUIDs, path \in Paths }

\* rows of update_assets as calculateSHA256ForArchive reads them
ArchiveAssets ==
    { [StorageObjectPath |-> AssetObjectKey(<<"a", "1">>, <<"b", "2">>, path),
       ContentSha256 |-> sha] :
        path \in { <<"a">>, <<"b">>, <<"a", "/", "b">> }, sha \in { <<"1">>, <<"2">> } }

CalculateSHA256ForArchiveCalls ==
    { Start("calculateSHA256ForArchive", assetList) :
        assetList \in UNION { [1..k -> ArchiveAssets] : k \in 0..MaxArchiveAssets } }

\* content_length of a storage object of a PrepareUpdate body: 1 up to
\* MaxObjectSize
ContentLengths == {1, 1024 * 1024, MaxObjectSize - 1, MaxObjectSize}

StorageObjects ==
    [Path : { <<"a">>, <<".", "/", "a">> },
     ContentLength : ContentLengths,
     ContentType : {"application/javascript"}]

UploadURLsCalls ==
    { Start("UploadURLs", [projectID |-> <<"a", "1">>, updateID |-> <<"b", "2">>,
                           objects |-> objects, failAt |-> failAt]) :
        objects \in UNION { [1..k -> StorageObjects] : k \in 0..MaxObjects },
        failAt \in 0..MaxObjects }

InitPure ==
    /\ InitStores
    /\ call \in AssetObjectKeyCalls \cup CalculateSHA256ForArchiveCalls \cup UploadURLsCalls
                \cup ValidateAssetPathCalls \cup ParseMetadataCalls \cup ObjectKeysCalls

NextPure ==
    \/ CalculateSHA256ForArchiveCall
    \/ AssetObjectKeyCall
    \/ UploadURLsCall
    \/ ValidateAssetPathCall
    \/ ParseMetadataCall
    \/ ObjectKeysCall

SpecPure == InitPure /\ [][NextPure]_vars

\* PUT /assets requests against the local blob store, one after another:
\* signed and forged URLs, keys of every shape, content lengths around the
\* limits.
UploadKeyPaths ==
    { <<"a">>, <<>>, <<"a", "/">>, <<"/", "a">>, <<"/", "/", "a">>,
      <<".", ".", "/", "a">>, <<"a", "/", ".", ".", "/", "b">> }

UploadKeys ==
    { <<"a", "1">>, <<"x">> \o <<"/">> \o <<"b", "2">> \o <<"/">> \o <<"a">> }
    \cup { <<"a", "1">> \o <<"/">> \o <<"b", "2">> \o <<"/">> \o path : path \in UploadKeyPaths }

UploadURLsSent ==
    { [obj |-> key, signature |-> HMAC(key)] : key \in UploadKeys }
    \cup { [obj |-> key, signature |-> HMAC(<<"a", "1">>)] : key \in UploadKeys \ {<<"a", "1">>} }

UploadRequests ==
    { [url |-> url, ContentLength |-> n, Body |-> <<"x">>] :
        url \in UploadURLsSent, n \in {-1, 0, 1, MaxObjectSize, MaxObjectSize + 1} }

NextUpload ==
    \E request \in UploadRequests, failAt \in {"none", "NewWriter", "Copy"} :
        /\ Cardinality(DOMAIN blobs) < MaxStored
        /\ handleUploadAsset(request, failAt)

SpecUpload == Init /\ [][NextUpload]_vars

\* ------------------------------------------------------------------------
\* Properties of the resolver (checked under SpecResolve)
\* ------------------------------------------------------------------------
\* the updates of the store that match the call's triple with status s
Matching(s) ==
    { i \in UpdateIDs : /\ updates[i].project_id = resp.params.project_id
                        /\ updates[i].runtime_version = resp.params.runtime_version
                        /\ updates[i].channel = resp.params.channel
                        /\ updates[i].status = s }

\* the hashes of an update's rows of one kind for the call's platform
ArchiveHashes(id) ==
    { a.content_sha256 : a \in { r \in AssetRows :
        r.update_id = id /\ r.platform = resp.params.platform /\ r.is_archive } }

LaunchHashes(id) ==
    { a.content_sha256 : a \in { r \in AssetRows :
        r.update_id = id /\ r.platform = resp.params.platform /\ r.is_launch_asset } }

\* every hash the store holds for update id on the call's platform
AnyHashes(id) == ArchiveHashes(id) \cup LaunchHashes(id)

\* the row the call looked at for status s (NoRow if none)
Considered(s) ==
    IF \E k \in 1..Len(resp.rows) : resp.rows[k].Update.status = s
    THEN resp.rows[CHOOSE k \in 1..Len(resp.rows) : resp.rows[k].Update.status = s]
    ELSE NoRow

\* the device's filter names the row: by update id, or by content hash
FilterMatches(r) ==
    \/ resp.filter.ID # NilID /\ resp.filter.ID = r.Update.id
    \/ /\ resp.filter.SHA256 # NilSHA
       /\ r.ContentSha256.Valid
       /\ r.ContentSha256.String = resp.filter.SHA256

Answered == resp.called /\ resp.queried

\* C1: UpdateToInstall never returns a published row that matches the filter
\* (same update id, or same content hash): a device is never told to install
\* the published update it already runs.
C1_NeverInstallCurrent ==
    resp.called =>
      ~ /\ resp.row.Update.status = "published"
        /\ \/ resp.row.Update.id = resp.filter.ID
           \/ /\ resp.row.ContentSha256.Valid
              /\ resp.row.ContentSha256.String = resp.filter.SHA256

\* a call whose filter hash is the considered published row's hash, answered nil
C1_Witness ==
    /\ Answered
    /\ resp.row = NoRow
    /\ Considered("published") # NoRow
    /\ resp.filter.SHA256 # NilSHA
    /\ Considered("published").ContentSha256 = Text(resp.filter.SHA256)

\* C2: the published row UpdateToInstall considers is the matching published
\* update with the greatest created_at, and the canceled row the most recent
\* canceled one, whatever assets the matching updates have.
C2_ConsidersMostRecent ==
    Answered =>
      \A s \in {"published", "canceled"} :
        /\ Matching(s) = {} => Considered(s) = NoRow
        /\ Matching(s) # {} =>
             /\ Considered(s) # NoRow
             /\ \A i \in Matching(s) :
                  updates[i].created_at <= Considered(s).Update.created_at

\* C3: when both a published and a canceled update match, the call returns
\* the newest published update if the device does not run it and nil if it
\* does, whichever of the canceled and published updates is newer; it never
\* returns the canceled row.  (Stated for the filters that leave no doubt:
\* the newest published update's id, or neither its id nor a hash of it.)
C3_NewestPublishedWins ==
    (Answered /\ Matching("published") # {} /\ Matching("canceled") # {}) =>
      LET p == CHOOSE i \in Matching("published") :
                 \A j \in Matching("published") : updates[j].created_at <= updates[i].created_at
      IN  /\ ~resp.err
          /\ resp.row.Update.status # "canceled"
          /\ resp.filter.ID = p => resp.row = NoRow
          /\ (resp.filter.ID # p /\ resp.filter.SHA256 \notin AnyHashes(p)) =>
               resp.row.Update.id = p

\* C4: when no published update matches and the update the device runs,
\* named by filter.ID, is canceled, the call returns that canceled update,
\* for any number of canceled updates.
C4_RollbackOfCurrent ==
    (Answered /\ Matching("published") = {} /\ resp.filter.ID \in Matching("canceled")) =>
      resp.row.Update.id = resp.filter.ID

\* C5: the call returns nil and no error when no published or canceled update
\* matches; when only canceled updates match and the filter is empty or names
\* none of the considered rows; and when only published updates match and the
\* filter names the considered one.
C5_NilCases ==
    Answered =>
      /\ (Matching("published") = {} /\ Matching("canceled") = {}) =>
           (resp.row = NoRow /\ ~resp.err)
      /\ ( /\ Matching("published") = {}
           /\ Matching("canceled") # {}
           /\ \/ resp.filter = [ID |-> NilID, SHA256 |-> NilSHA]
              \/ \A k \in 1..Len(resp.rows) : ~FilterMatches(resp.rows[k]) ) =>
           (resp.row = NoRow /\ ~resp.err)
      /\ ( /\ Matching("canceled") = {}
           /\ Matching("published") # {}
           /\ FilterMatches(Considered("published")) ) =>
           (resp.row = NoRow /\ ~resp.err)

\* only canceled updates match and the device names another update
C5_Witness ==
    /\ Answered
    /\ Matching("published") = {}
    /\ Matching("canceled") # {}
    /\ resp.filter.ID # NilID
    /\ resp.row = NoRow
    /\ ~resp.err

\* C6: the content_sha256 returned with an update row is the hash of the
\* update's archive for the platform if it has one, otherwise of its launch
\* asset, and null only if it has neither.
C6_ArchiveHashPreferred ==
    (resp.called /\ resp.row # NoRow) =>
      LET id == resp.row.Update.id
          sha == resp.row.ContentSha256
      IN  /\ ArchiveHashes(id) # {} => (sha.Valid /\ sha.String \in ArchiveHashes(id))
          /\ (ArchiveHashes(id) = {} /\ LaunchHashes(id) # {}) =>
               (sha.Valid /\ sha.String \in LaunchHashes(id))
          /\ ~sha.Valid <=> (ArchiveHashes(id) = {} /\ LaunchHashes(id) = {})

\* a row returned for an update that has both a launch asset and an archive
C6_Witness ==
    /\ resp.called
    /\ resp.row # NoRow
    /\ ArchiveHashes(resp.row.Update.id) # {}
    /\ LaunchHashes(resp.row.Update.id) # {}
    /\ resp.row.ContentSha256.String \in ArchiveHashes(resp.row.Update.id)

C8_CanceledOnlyFromPublished ==
    lastWrite.to = "canceled" => lastWrite.from = "published"

\* C9: published and failed are written only by the worker (ProcessUpdate
\* and the max-deliveries handler); the worker never writes canceled or
\* empty; the API writes only empty (PrepareUpdate), pending (CommitUpdate)
\* and canceled (RollbackUpdate).
C9_WritersOfStatus ==
    lastWrite # NoWrite =>
      /\ lastWrite.to = "published" => lastWrite.by = "ProcessUpdate"
      /\ lastWrite.to = "failed" => lastWrite.by = "newMaxDeliveriesHandler"
      /\ ProcessOf(lastWrite.by) = "worker" => lastWrite.to \notin {"canceled", "empty"}
      /\ ProcessOf(lastWrite.by) = "api" =>
           \/ lastWrite.by = "PrepareUpdate" /\ lastWrite.to = "empty"
           \/ lastWrite.by = "CommitUpdate" /\ lastWrite.to = "pending"
           \/ lastWrite.by = "RollbackUpdate" /\ lastWrite.to = "canceled"
      /\ ProcessOf(lastWrite.by) \in {"api", "worker"}

\* the max-deliveries handler has written failed over the worker's pending
C9_Witness ==
    /\ lastWrite.by = "newMaxDeliveriesHandler"
    /\ lastWrite.to = "failed"
    /\ lastWrite.from = "pending"

\* C10: when ProcessUpdate returns success the update's status is published,
\* and when the max-deliveries advisory of an update's exhausted message has
\* been handled the update's status is failed.
C10_WorkerOutcome ==
    /\ (ret.op = "ProcessUpdate" /\ ret.err = "none") =>
         updates[ret.id].status = "published"
    /\ ret.op = "newMaxDeliveriesHandler" => updates[ret.id].status = "failed"

\* C11: RollbackUpdate(project_id, update_id) returns ErrUpdateNotFound when
\* the project has no update with that id, ErrUpdateNotPublished when the
\* update it reads is not published (an already canceled one included), and
\* leaves the status alone in both cases; it goes on to write canceled only
\* for an update it has read as published, and writes nothing else.
C11_RollbackErrors ==
    [][ /\ \A project_id \in Projects, id \in 1..MaxUpdates :
             RollbackUpdate(project_id, id, TRUE) =>
               LET found == id \in UpdateIDs /\ updates[id].project_id = project_id IN
               /\ ~found => (ret'.err = "ErrUpdateNotFound" /\ updates' = updates)
               /\ (found /\ updates[id].status # "published") =>
                    (ret'.err = "ErrUpdateNotPublished" /\ updates' = updates)
               /\ rollbacks' # rollbacks => (found /\ updates[id].status = "published")
        /\ lastWrite'.by = "RollbackUpdate" =>
             /\ lastWrite'.to = "canceled"
             /\ BagIn(lastWrite'.id, rollbacks)
             /\ updates' = [updates EXCEPT ![lastWrite'.id].status = "canceled"]
      ]_vars

\* a repeated rollback: the canceled update is refused and stays canceled
C11_Witness ==
    /\ ret.op = "RollbackUpdate"
    /\ ret.err = "ErrUpdateNotPublished"
    /\ updates[ret.id].status = "canceled"

\* C12: committing an update again leads to the same final status and the
\* same asset rows as committing it once: in runs without failures, once
\* the worker has nothing left to do, a published update has the rows of one
\* ingestion (every row once, at most one archive row per platform), however
\* many times it was committed.
C12_CommitIdempotent ==
    Quiet =>
      \A id \in UpdateIDs :
        updates[id].status = "published" =>
          /\ \A a \in DOMAIN assets : a.update_id = id => assets[a] = 1
          /\ \A p \in PlatformSet :
               Cardinality({ a \in AssetRows :
                               a.update_id = id /\ a.platform = p /\ a.is_archive }) <= 1

\* ------------------------------------------------------------------------
\* Properties of the device update checks (checked under SpecCheck)
\* ------------------------------------------------------------------------
\* the update check endpoint has answered 200 for a parsed request
Served(endpoint) == reply.called /\ reply.endpoint = endpoint /\ reply.status = 200

\* update U is the only update of its project, runtime version and channel
OnlyOfItsTriple(U) ==
    \A j \in UpdateIDs \ {U} :
      \/ updates[j].project_id # updates[U].project_id
      \/ updates[j].runtime_version # updates[U].runtime_version
      \/ updates[j].channel # updates[U].channel

\* C13: once update U, the only update of its (project, runtime version,
\* production channel), is rolled back, an Expo update check of that project
\* and runtime version with current_update_id = U is answered with the
\* directive rollBackToEmbedded, also when the same request was answered
\* before the rollback, and a check without current_update_id is answered
\* with noUpdateAvailable.
C13_RollbackReachesDevices ==
    Served("expo") =>
      \A U \in UpdateIDs :
        ( /\ updates[U].status = "canceled"
          /\ OnlyOfItsTriple(U)
          /\ updates[U].project_id = reply.params.ProjectID
          /\ updates[U].runtime_version = reply.params.RuntimeVersion
          /\ updates[U].channel = DefaultChannelName ) =>
            /\ reply.params.CurrentUpdateId = U => reply.kind = "rollBackToEmbedded"
            /\ reply.params.CurrentUpdateId = NilID => reply.kind = "noUpdateAvailable"

\* C14: when GetExpoUpdate of an expo project, with valid parameters, no
\* cached entry and every store call succeeding, has run the resolver, it
\* answers with the manifest exactly when the resolver returned a published
\* row, with rollBackToEmbedded exactly when it returned a canceled row and
\* with noUpdateAvailable when it returned null; the channel resolved is
\* production and a query parameter wins over its expo-* header.
C14_ExpoAnswerFollowsResolver ==
    (reply.called /\ reply.endpoint = "expo" /\ reply.resolved) =>
      /\ reply.kind = "manifest"
           <=> (reply.row # NoRow /\ reply.row.Update.status = "published")
      /\ reply.kind = "rollBackToEmbedded"
           <=> (reply.row # NoRow /\ reply.row.Update.status = "canceled")
      /\ reply.row = NoRow => reply.kind = "noUpdateAvailable"
      /\ reply.params.Channel = DefaultChannelName
      /\ reply.request.Platform # NilParam => reply.params.Platform = reply.request.Platform
      /\ reply.request.CurrentUpdateId # NilID
           => reply.params.CurrentUpdateId = reply.request.CurrentUpdateId
      /\ reply.request.RuntimeVersion # NilParam
           => reply.params.RuntimeVersion
                = semverString(semverNewVersion(reply.request.RuntimeVersion))

\* the asset rows of a kind (archive or launch asset) of an update's platform
RowsOfKind(id, platform, archive) ==
    { a \in AssetRows : /\ a.update_id = id
                        /\ a.platform = platform
                        /\ IF archive THEN a.is_archive
                           ELSE a.is_launch_asset /\ ~a.is_archive }

\* C15: when GetCodePushUpdate of a codepush project, every store call
\* succeeding, has run the resolver, it answers IsAvailable=false,
\* ShouldRunBinaryVersion=true with empty fields exactly when the resolver
\* returned null; otherwise it answers IsAvailable=true, IsMandatory=true,
\* ShouldRunBinaryVersion=false, Label = update id, AppVersion =
\* TargetBinaryRange = the update's runtime version, and the package hash,
\* size and URL of the update's archive row for the platform if there is
\* one, else of its launch asset row.
C15_CodePushAnswerFollowsResolver ==
    (reply.called /\ reply.endpoint = "codepush" /\ reply.resolved) =>
      /\ reply.kind = "updateInfo"
      /\ reply.body = CodePushNoUpdate <=> reply.row = NoRow
      /\ reply.row # NoRow =>
           LET u == reply.row.Update
               archives == RowsOfKind(u.id, reply.params.platform, TRUE)
               launches == RowsOfKind(u.id, reply.params.platform, FALSE)
               from == IF archives # {} THEN archives ELSE launches
           IN  /\ reply.body.IsAvailable /\ reply.body.IsMandatory
               /\ ~reply.body.ShouldRunBinaryVersion
               /\ reply.body.Label = u.id
               /\ reply.body.AppVersion = u.runtime_version
               /\ reply.body.TargetBinaryRange = u.runtime_version
               /\ \E a \in from : /\ reply.body.PackageHash = a.content_sha256
                                  /\ reply.body.PackageSize = ContentLength(a)
                                  /\ reply.body.DownloadURL = SignedURL(a)

\* ------------------------------------------------------------------------
\* Properties of the asset rows (checked under Spec)
\* ------------------------------------------------------------------------
\* the number of asset rows of an update's platform that satisfy Is
RECURSIVE CountRows(_, _)
CountRows(rows, n) ==
    IF rows = {} THEN n
    ELSE LET a == CHOOSE r \in rows : TRUE
         IN  CountRows(rows \ {a}, n + assets[a])

LaunchRows(id, p) ==
    CountRows({ a \in AssetRows : a.update_id = id /\ a.platform = p /\ a.is_launch_asset }, 0)

ArchiveRows(id, p) ==
    CountRows({ a \in AssetRows : a.update_id = id /\ a.platform = p /\ a.is_archive }, 0)

\* C16: in every reachable state, also after failed and retried processing
\* attempts of an update that was committed once, each update and platform
\* has at most one launch asset row and at most one archive row.
C16_OneLaunchOneArchive ==
    (Len(stream) <= 1 /\ commits = EmptyBag) =>
      \A id \in UpdateIDs, p \in PlatformSet :
        LaunchRows(id, p) <= 1 /\ ArchiveRows(id, p) <= 1

PlainRows(id, p) ==
    CountRows({ a \in AssetRows : /\ a.update_id = id /\ a.platform = p
                                  /\ ~a.is_launch_asset /\ ~a.is_archive }, 0)

\* C17: when ProcessUpdate completes successfully (it has just written
\* published), the update's asset rows are, for each platform of its
\* fileMetadata, exactly one launch asset row, exactly n plain rows for the n
\* entries of the platform's assets, and an archive row if and only if the
\* project is a codepush project and n > 0; the other platforms have no rows.
C17_RowsAfterProcessUpdate ==
    (lastWrite.by = "ProcessUpdate" /\ lastWrite.to = "published") =>
      LET id == lastWrite.id
          meta == bucket[id]
      IN  \A p \in PlatformSet :
            IF p \in DOMAIN meta
            THEN /\ LaunchRows(id, p) = 1
                 /\ PlainRows(id, p) = meta[p].assets
                 /\ ArchiveRows(id, p) >= 1
                      <=> (Protocol(updates[id].project_id) = "codepush" /\ meta[p].assets > 0)
            ELSE LaunchRows(id, p) + PlainRows(id, p) + ArchiveRows(id, p) = 0

\* ------------------------------------------------------------------------
\* Properties of the storage and hashing functions (checked under SpecPure)
\* ------------------------------------------------------------------------
\* the orderings of a list: the lists of the same length with the same
\* number of occurrences of every element
Orderings(list) ==
    { q \in [1..Len(list) -> { list[i] : i \in 1..Len(list) }] :
        \A x \in { list[i] : i \in 1..Len(list) } :
          Cardinality({ i \in 1..Len(q) : q[i] = x })
            = Cardinality({ i \in 1..Len(list) : list[i] = x }) }

\* C18: calculateSHA256ForArchive is order-insensitive: the value returned
\* for a list of assets is the value it returns for every permutation of
\* the list.
C18_ArchiveHashOrderInsensitive ==
    (call.fn = "calculateSHA256ForArchive" /\ call.pc = "done") =>
      \A q \in Orderings(call.args) : calculateSHA256ForArchiveOf(q) = call.result

\* a hash was computed for three assets given in an order that is not the
\* sorted order of their tokens
C18_Witness ==
    /\ call.fn = "calculateSHA256ForArchive"
    /\ call.pc = "done"
    /\ Len(call.args) = 3
    /\ StringLess(ArchiveToken(call.args[2]), ArchiveToken(call.args[1]))
    /\ StringLess(ArchiveToken(call.args[3]), ArchiveToken(call.args[2]))
    /\ call.result[2] = <<ArchiveToken(call.args[3]), ArchiveToken(call.args[2]),
                          ArchiveToken(call.args[1])>>

\* C19: for every project id, update id and path accepted by the asset_path
\* validation, AssetObjectKeySegments(AssetObjectKey(project_id, update_id,
\* path)) is exactly (project_id, update_id, path).
C19_KeyRoundTrip ==
    ( /\ call.fn = "AssetObjectKey"
      /\ call.pc = "done"
      /\ validateAssetPath(call.args.path) ) =>
        call.result = <<call.args.projectID, call.args.updateId, call.args.path>>

\* the key of an accepted path with a directory was taken apart
C19_Witness ==
    /\ call.fn = "AssetObjectKey"
    /\ call.pc = "done"
    /\ validateAssetPath(call.args.path)
    /\ Contains(call.args.path, <<"/">>)
    /\ call.result[3] = call.args.path

\* C20: UploadURLs rejects with ErrUpdateTooLarge exactly when the sum of
\* the blobs' content_length exceeds 100 MiB, a total of exactly 100 MiB
\* being accepted; no URL has been signed then, and PrepareUpdate answers 400
\* with a validation error on field file_metadata.
C20_UploadLimit ==
    (call.fn = "UploadURLs" /\ call.pc = "done") =>
      /\ call.result.err = "ErrUpdateTooLarge"
           <=> TotalSize(call.args.objects) > 104857600
      /\ call.result.err = "ErrUpdateTooLarge" =>
           /\ call.result.signed = 0
           /\ call.result.urls = <<>>
           /\ call.result.response.status = 400
           /\ call.result.response.field = "file_metadata"
      /\ call.result.response.field = "file_metadata"
           => call.result.err = "ErrUpdateTooLarge"

\* two objects of exactly 100 MiB in total were accepted and their URLs signed
C20_Witness ==
    /\ call.fn = "UploadURLs"
    /\ call.pc = "done"
    /\ Len(call.args.objects) = 2
    /\ TotalSize(call.args.objects) = 104857600
    /\ call.result.err = "none"
    /\ call.result.signed = 2
    /\ call.result.response.status = 201

\* ------------------------------------------------------------------------
\* Properties of PrepareUpdate (checked under SpecPrepare)
\* ------------------------------------------------------------------------
\* C21: PrepareUpdate is atomic: a call that returns an error, whatever step
\* failed, leaves no update row and no update_metadata row behind; a call
\* that succeeds adds exactly one update row, with status empty and the given
\* project, and an update_metadata row for it if and only if expo_app_config
\* was supplied.
C21_PrepareAtomic ==
    [][ \A req \in LifecycleRequests, upload \in LifecycleUploads,
           expoAppConfig \in BOOLEAN, failAt \in PrepareFailures \cup {"none"} :
          PrepareUpdate(req, upload, expoAppConfig, failAt) =>
            IF failAt # "none"
            THEN /\ updates' = updates
                 /\ update_metadata' = update_metadata
                 /\ ret'.err # "none"
            ELSE /\ Len(updates') = Len(updates) + 1
                 /\ SubSeq(updates', 1, Len(updates)) = updates
                 /\ updates'[Len(updates')].status = "empty"
                 /\ updates'[Len(updates')].project_id = req.project_id
                 /\ Len(updates') \in update_metadata' <=> expoAppConfig
                 /\ update_metadata' \ {Len(updates')} = update_metadata
      ]_vars

\* a call has failed after two succeeded, one of them with expo_app_config:
\* the tables hold the two updates and the one metadata row
C21_Witness ==
    /\ ret.op = "PrepareUpdate"
    /\ ret.err = "error"
    /\ Len(updates) = 2
    /\ update_metadata = {2}

\* ------------------------------------------------------------------------
\* Properties of the commit and of the worker (checked under Spec)
\* ------------------------------------------------------------------------
\* the messages published for an update, delivered or not
MessagesOf(id) == { seq \in 1..Len(stream) : stream[seq].update_id = id }

\* an update nothing was published for is not processed: it is empty or
\* pending, has no asset row and the worker does not hold a message of it
Unprocessed(id) ==
    /\ updates[id].status \in {"empty", "pending"}
    /\ \A a \in AssetRows : a.update_id # id
    /\ worker.pc # "idle" => Msg.update_id # id

\* C22: CommitUpdate first sets the status to pending and then publishes one
\* message; when the publish fails it returns an error, the status stays as
\* it is (pending when no message of the update exists), no message is
\* added, and an update with no message is never processed.
C22_CommitPublishFailure ==
    [][ /\ \A id \in UpdateIDs :
             /\ CommitUpdate(updates[id].project_id, id, TRUE) =>
                  /\ updates'[id].status = "pending"
                  /\ stream' = stream
                  /\ BagIn(id, commits')
             /\ PublishProcessUpdateMessage(id, TRUE) =>
                  /\ Len(stream') = Len(stream) + 1
                  /\ stream'[Len(stream')].update_id = id
                  /\ ret'.err = "none"
             /\ PublishProcessUpdateMessage(id, FALSE) =>
                  /\ ret'.op = "CommitUpdate" /\ ret'.err = "error"
                  /\ stream' = stream
                  /\ updates' = updates
                  /\ MessagesOf(id) = {} => updates[id].status = "pending"
        /\ \A id \in 1..Len(updates') :
             { seq \in 1..Len(stream') : stream'[seq].update_id = id } = {} => Unprocessed(id)'
      ]_vars

\* the publish of the only commit of an update has failed: the update is
\* pending and the stream is empty
C22_Witness ==
    /\ ret.op = "CommitUpdate"
    /\ ret.err = "error"
    /\ commits = EmptyBag
    /\ stream = <<>>
    /\ updates[ret.id].status = "pending"

\* C23: with one worker and a single CommitUpdate, the pending precondition
\* makes processing at-most-once: however many times the message of the
\* update is delivered, ProcessUpdate completes successfully for it at most
\* once.
C23_ProcessedAtMostOnce ==
    \A seq \in 1..Len(stream) : stream[seq].processed <= 1

\* C24: a worker that exits while an update is being ingested (status
\* processing, message unacknowledged) does not strand the update: the
\* redelivered message has it processed again, so no update is left in
\* status processing once the worker is idle and every message has left
\* the stream.
C24_RedeliveredAfterExit ==
    Quiet => \A id \in UpdateIDs : updates[id].status # "processing"

\* the directory portion of a path: everything up to its last "/"
DirPortion(str) ==
    SubSeq(str, 1, CHOOSE i \in 0..Len(str) :
                     /\ i = 0 \/ str[i] = "/"
                     /\ \A j \in (i + 1)..Len(str) : str[j] # "/")

HasDotDot(s) == \E i \in 1..(Len(s) - 1) : s[i] = "." /\ s[i + 1] = "."

BadBundle(fm) == fm.bundle = Absent \/ ~validateAssetPath(fm.bundle)

BadAsset(asset) ==
    \/ ~validateAssetPath(asset.path) \/ Len(asset.path) > 1024
    \/ ~validateAssetExt(asset.ext) \/ Len(asset.ext) > 16

\* C26: ParseMetadata rejects a metadata.json in which a platform's bundle
\* is missing or is no valid asset_path, or in which an asset's path is no
\* valid asset_path of at most 1024 characters or its ext does not match
\* the extension pattern within 16 characters.
C26_ParseMetadataRejects ==
    (call.fn = "ParseMetadata" /\ call.pc = "done" /\ call.args.wellFormed) =>
        LET fileMetadata == call.args.fileMetadata IN
        (\E p \in DOMAIN fileMetadata :
            \/ BadBundle(fileMetadata[p])
            \/ \E i \in 1..Len(fileMetadata[p].assets) : BadAsset(fileMetadata[p].assets[i]))
        => call.result.err = "error"

\* C27: in local storage mode a PUT under /assets stores the body at the
\* object key only if the signature of the URL verifies, the key splits into
\* a uuid project id, a uuid update id and a path that passes asset_path,
\* and the content length is between 1 and 100 MiB; a failed signature is
\* answered 401, a failed validation with a validation error, and both leave
\* the blob store unchanged.
C27_UploadGated ==
    [][\A request \in UploadRequests, failAt \in {"none", "NewWriter", "Copy"} :
         handleUploadAsset(request, failAt) =>
            LET segments == AssetObjectKeySegments(request.url.obj)
                signed == request.url.signature = HMAC(request.url.obj)
                valid == /\ uuid(segments[1])
                         /\ uuid(segments[2])
                         /\ validateAssetPath(segments[3])
                         /\ 1 <= request.ContentLength
                         /\ request.ContentLength <= MaxObjectSize
            IN  /\ blobs' # blobs => signed /\ valid
                /\ ~signed => call'.result = <<401>> /\ blobs' = blobs
                /\ (signed /\ ~valid) => call'.result = <<400>> /\ blobs' = blobs
      ]_vars

\* C28: a failure of the cache (an error of cache.Get, a cached value that
\* does not decode, an error of cache.Set) never fails an Expo update check:
\* the request is answered exactly as it is against an empty cache whose
\* calls succeed.
C28_CacheFailureBypassed ==
    [][\A request \in ExpoRequests, o \in CallOutcomes :
         ( /\ ~expoUpdateParseParams(request).err
           /\ LET key == expoUpdateCacheKey(expoUpdateParseParams(request).params) IN
              \/ ~o[1]
              \/ key \in DOMAIN cache /\ cache[key] = Undecodable
              \/ ~o[3] /\ key \notin DOMAIN cache
           /\ GetExpoUpdate(request, o[1], o[2], o[3]) )
         => \E answer \in GetExpoUpdateAnswers(request, NoCache, TRUE, o[2], TRUE) :
              reply' = answer.reply
      ]_vars

\* a check was answered from the stores over a cached value that does not decode
C28_Witness ==
    /\ Served("expo")
    /\ reply.resolved
    /\ ~reply.cached
    /\ expoUpdateCacheKey(reply.params) \in DOMAIN cache
    /\ cache[expoUpdateCacheKey(reply.params)] = Undecodable

\* C29: a message is attempted at most MaxDeliver times; once the
\* max-deliveries advisory of an exhausted message has been taken up, the
\* handler has set the update's status to failed and the message is deleted
\* from the stream, so that no further attempt is made.
C29_ExhaustedBecomesFailed ==
    /\ \A seq \in 1..Len(stream) : stream[seq].num_delivered <= MaxDeliver
    /\ \A seq \in 1..Len(stream) :
         (stream[seq].st = "maxed" /\ seq \notin advisories) =>
            updates[stream[seq].update_id].status = "failed"
    /\ ret.op = "newMaxDeliveriesHandler" =>
         /\ updates[ret.id].status = "failed"
         /\ \A seq \in 1..Len(stream) :
              stream[seq].update_id = ret.id => stream[seq].st = "gone"

\* the row ProcessUpdate inserts for file f of update id
RowOfFile(id, f) ==
    IF f[2] = 0
    THEN AssetRow(id, f[1], BundlePath, SHA256(bucket[id][f[1]].bundle), TRUE, FALSE)
    ELSE AssetRow(id, f[1], AssetPath(f[2]), SHA256(AssetContent(f[2])), FALSE, FALSE)

\* the copies of a row in a table
Copies(table, row) == IF row \in DOMAIN table THEN table[row] ELSE 0

\* C30: in one ProcessUpdate pass in which a bundle or asset of the metadata
\* fails to be read or hashed, the rows of the files parsed successfully are
\* still inserted, the pass returns an error, no archive row is written and
\* the status is not set to published; a failed bundle skips the remaining
\* assets of its platform while the other platform is still ingested.
C30_PartialParseFailure ==
    [][\A bad \in BadFiles :
         (bad # {} /\ ProcessUpdateIngest(TRUE, bad, TRUE)) =>
           LET id == Msg.update_id
               files == Files(bucket[id])
               parsed == { f \in files : f \notin bad /\ <<f[1], 0>> \notin bad }
           IN  /\ ret'.op = "ProcessUpdate" /\ ret'.err = "error"
               /\ worker'.pc = "failed"
               /\ updates' = updates
               /\ \A f \in parsed :
                    Copies(assets', RowOfFile(id, f))
                      = IF Copies(assets, RowOfFile(id, f)) = MaxCopies THEN MaxCopies
                        ELSE Copies(assets, RowOfFile(id, f)) + 1
               /\ \A row \in DOMAIN assets' \cup DOMAIN assets :
                    row \notin { RowOfFile(id, f) : f \in parsed } =>
                       Copies(assets', row) = Copies(assets, row)
      ]_vars

\* the ios bundle failed: the android bundle is stored, nothing of ios is,
\* and the pass has returned an error
C30_Witness ==
    /\ worker.pc = "failed"
    /\ ret.op = "ProcessUpdate"
    /\ ret.err = "error"
    /\ bucket[ret.id] = BothPlatforms
    /\ AssetRows = { RowOfFile(ret.id, <<"android", 0>>) }

\* the non-launch, non-archive asset rows of a platform of an update
NonLaunchAssets(id, platform) ==
    [ a \in { r \in DOMAIN GetUpdateAssetsByPlatform(id, platform) : ~r.is_launch_asset }
        |-> assets[a] ]

\* C31: the archive ProcessUpdate builds for a platform of a CodePush update
\* groups exactly the non-launch, non-archive asset rows of that update and
\* platform: the tokens hashed into the archive row are one per such row and
\* the launch bundle is not among them.
C31_ArchiveGroupsNonLaunchAssets ==
    [][\A archOk, ok \in BOOLEAN :
         (ProcessUpdateArchive(archOk, ok) /\ worker'.pc = "publish") =>
           \A p \in PlatformSet :
              shouldMakeArchive(Msg.update_id, p) =>
                 archiveForPlatform(Msg.update_id, p).content_sha256
                    = calculateSHA256ForArchive(NonLaunchAssets(Msg.update_id, p))
      ]_vars

\* the rows a finished pass over update `id` has inserted: the launch row of
\* every platform of the metadata and, for a codepush project, the archive
\* row of every platform with assets
IngestComplete(id) ==
    \A p \in DOMAIN bucket[id] :
       /\ \E a \in AssetRows :
             a.update_id = id /\ a.platform = p /\ a.is_launch_asset /\ ~a.is_archive
       /\ shouldMakeArchive(id, p) =>
             \E a \in AssetRows : a.update_id = id /\ a.platform = p /\ a.is_archive

\* C32: ProcessUpdate writes published only after the parsed asset rows and
\* the archive rows are inserted: whenever an update is published, the launch
\* row of every platform of its metadata exists and, for a codepush project,
\* so does the archive row of every platform with assets.
C32_PublishedAfterRows ==
    \A id \in UpdateIDs : updates[id].status = "published" => IngestComplete(id)

\* a codepush update with an archived platform has just been published
C32_Witness ==
    /\ lastWrite.by = "ProcessUpdate"
    /\ lastWrite.to = "published"
    /\ updates[lastWrite.id].status = "published"
    /\ \E p \in PlatformSet : shouldMakeArchive(lastWrite.id, p)
    /\ DOMAIN bucket[lastWrite.id] = PlatformSet

\* the handler `w` is inside ProcessUpdate for update `id`, past the status check
Executing(w, id) ==
    /\ w.pc \in {"setProcessing", "ingest", "archive", "publish"}
    /\ stream[w.seq].update_id = id

\* C33: the status check of ProcessUpdate is not atomic with the write of
\* processing. A pass goes on to the write only when it read pending, and the
\* write then sets processing whatever the status has become and goes on to
\* ingest; a worker instance takes a message only when its handler is idle,
\* so two executions for one update overlap only across two instances.
C33_CheckNotAtomic ==
    [][/\ (ProcessUpdateGet(TRUE) /\ worker'.pc = "setProcessing") =>
             MsgUpdate.status = "pending"
       /\ ProcessUpdateSetProcessing(TRUE) =>
             /\ updates'[Msg.update_id].status = "processing"
             /\ worker'.pc = "ingest"
       /\ \A seq \in 1..Len(stream) :
             Deliver(seq) => ~\E id \in UpdateIDs : Executing(worker, id)
       /\ \A id \in UpdateIDs :
             (Executing(worker', id) /\ Executing(worker2', id)) =>
                 worker'.seq # 0 /\ worker2'.seq # 0
      ]_vars

\* both worker instances read pending for the same update before either wrote:
\* one has written processing and ingested, and the other has just written
\* processing over processing and is ingesting
C33_Witness ==
    /\ lastWrite.by = "ProcessUpdate"
    /\ lastWrite.from = "processing"
    /\ lastWrite.to = "processing"
    /\ worker.pc = "ingest"
    /\ worker2.pc = "archive"
    /\ Executing(worker, lastWrite.id)
    /\ Executing(worker2, lastWrite.id)

\* C34: a published update changes its status only to canceled, and only
\* through RollbackUpdate: no step of CommitUpdate, of the message handler or
\* of the max-deliveries handler moves it to pending, processing or failed.
C34_PublishedOnlyCanceled ==
    [][\A id \in UpdateIDs :
         (updates[id].status = "published" /\ updates'[id].status # "published") =>
            /\ updates'[id].status = "canceled"
            /\ lastWrite'.by = "RollbackUpdate"
      ]_vars

\* C35: the max-deliveries handler sets failed only on an update that is
\* neither published nor canceled: when a message of an update exhausts its
\* deliveries after another message of the same update was processed, the
\* status stays published.
C35_DeadLetterKeepsPublished ==
    [][\A seq \in advisories, getOk, setOk, delOk \in BOOLEAN :
         (/\ maxDeliveriesHandlerWrapper(seq, getOk, setOk, delOk)
          /\ updates[stream[seq].update_id].status \in {"published", "canceled"}) =>
            updates' = updates
      ]_vars

\* C36: with a queue and a single worker that keep taking their steps, every
\* update whose CommitUpdate succeeded (its message is in the stream)
\* eventually has status published or failed, whichever calls of the
\* processing attempts fail.
C36_EventuallySettled ==
    \A id \in 1..MaxUpdates :
       (id \in UpdateIDs /\ \E seq \in 1..Len(stream) : stream[seq].update_id = id)
          ~> (id \in UpdateIDs /\ updates[id].status \in {"published", "failed"})

\* C37: every published update that UpdateToInstall returns to the Expo
\* responder for a platform has a launch asset row of that platform, and the
\* responder answers the update check with a manifest, never with an error
\* for missing assets.
C37_PublishedHasLaunchAsset ==
    (/\ reply.called
     /\ reply.endpoint = "expo"
     /\ reply.resolved
     /\ reply.row # NoRow
     /\ reply.row.Update.status = "published") =>
        /\ \E a \in AssetRows :
              /\ a.update_id = reply.row.Update.id
              /\ a.platform = reply.params.Platform
              /\ a.is_launch_asset
        /\ reply.status = 200
        /\ reply.kind = "manifest"

\* C38: a CodePush update check never answers IsAvailable = true with a
\* PackageHash equal to the packageHash the device sent in the request.
C38_NeverOffersInstalledPackage ==
    (/\ reply.called
     /\ reply.endpoint = "codepush"
     /\ reply.kind = "updateInfo"
     /\ reply.body.IsAvailable) =>
        reply.body.PackageHash # reply.request.PackageHash

\* the object key, resolved as a path, names something inside the directory
\* of the update: below "{project_id}/{update_id}/" and not the directory itself
InsideUpdate(key, projectID, updateID) ==
    LET prefix == projectID \o <<"/">> \o updateID \o <<"/">>
        resolved == CleanPath(key)
    IN  /\ HasPrefix(key, prefix)
        /\ HasPrefix(resolved, prefix)
        /\ Len(resolved) > Len(prefix)

\* C39: for every client path the asset_path validator accepts, the object
\* key over the cleaned path lies under "{project_id}/{update_id}/" of its
\* own update: it resolves neither to the update's directory itself, nor to
\* its parent, nor to another update or project.
C39_KeyUnderUpdatePrefix ==
    (call.fn = "ObjectKeys" /\ call.pc = "done" /\ call.result.valid) =>
        InsideUpdate(call.result.signed, call.args.projectID, call.args.updateID)

\* C40: for every valid client path, the object key the worker reads when it
\* ingests the path equals the object key PrepareUpdate signed the upload URL
\* for, paths that start with "./" included.
C40_WorkerReadsSignedKey ==
    (call.fn = "ObjectKeys" /\ call.pc = "done" /\ call.result.valid) =>
        call.result.read = call.result.signed

====
